---- MODULE Spec2Model ----
(***************************************************************************)
(* The directed dependency graph of unfort                                 *)
(* (src/directed-dependency-graph/graph.js): asynchronous trace jobs,      *)
(* invalidation of pending jobs, pruning anchored at permanent nodes and   *)
(* the events the graph emits.                                             *)
(*                                                                         *)
(* One step of the model is one run-to-completion piece of JavaScript: a   *)
(* call of the graph's API, one callback of the process.nextTick queue, or *)
(* one invocation of the callback handed to getDependencies.               *)
(***************************************************************************)
EXTENDS Integers, Sequences, FiniteSets, TLC

\* ------------------------------------------------------------------ bounds
\* calls of store jobs made from outside the jobs
MaxRequests == 2
\* calls of the graph's API (traceNode, pruneNode, setNodeAsPermanent) made
\* by the caller; the jobs enqueued by dependency discovery are not counted
MaxCalls == 3
\* entries the caller traces in the tracing-only specification
MaxEntries == 2

\* the longest source string of an analyzed dependency
MaxIdLen == 4
\* the distinct entries written to the cache before the last new record
MaxWrites == 1

\* the most dependency identifiers of a file
MaxIds == 3

\* ------------------------------------------------------------------ inputs
Nodes == {"A", "B", "C"}

\* what getDependencies can report as `err`
Errors == {"ENOENT"}

\* The dependency relations getDependencies answers from: node -> list.
CycleDeps == [n \in Nodes |-> CASE n = "A" -> <<"B">>
                                [] n = "B" -> <<"C">>
                                [] n = "C" -> <<"B">>]

DiamondDeps == [n \in Nodes |-> CASE n = "A" -> <<"B", "C">>
                                  [] n = "B" -> <<"C">>
                                  [] n = "C" -> <<>>]

SelfDeps == [n \in Nodes |-> CASE n = "A" -> <<"A", "B">>
                               [] n = "B" -> <<>>
                               [] n = "C" -> <<"A">>]

Relations == {CycleDeps, DiamondDeps, SelfDeps}

VARIABLES
  relation,        \* what getDependencies reports on success (fixed per run)
  nodes,           \* graph.js:74  id -> [dependencies, dependents]
  permanentNodes,  \* graph.js:75  list of ids
  pendingJobs,     \* graph.js:77  list of jobs [id, node, isValid, phase,
                   \*   addedBefore]; phase is the job's position
                   \*   ("scheduled": startTracingNode deferred, "inflight":
                   \*   getDependencies called), addedBefore the number of
                   \*   `added` events of its node when it was enqueued
  tickQueue,       \* the process.nextTick queue (FIFO) of graph callbacks
  emitted,         \* the events emitted by the last step, in order
  addedCount,      \* per node: `added` events so far
  completeCount,   \* `complete` events so far
  completesSinceDrain, \* `complete` events since pendingJobs last drained
  dispatched,      \* getDependencies has been called at least once
  calls,           \* calls of the graph's API made by the caller so far
  entries,         \* the ids the caller has passed to traceNode
  lastStep         \* the step just taken: [op, node, valid]

\* The record store over the jobs of createJobs, for one record.
VARIABLES
  storeCfg,        \* the store and its record: [file, overrides]
  jobCache,        \* state.jobCache: cache key -> the map stored under it
  slots,           \* per job: [state, value] of its memoized promise; per
                   \*   asynchronous library call: the same for its promise
  started,         \* per job: how often its function has been invoked
  called,          \* per job: the store jobs and library calls its running
                   \*   function has called so far
  handles,         \* the promises handed to callers: <<job, promise>>
  cachedData,      \* the fields of the object that readCache resolved to
  requests         \* calls of store jobs made from outside the jobs

VARIABLES
  kv,              \* the cache substrate: [memory, durable, writes, lastSet,
                   \*   got]: the in-memory layer, the durable store, the
                   \*   durable writes in flight, and for the properties the
                   \*   value last set per key and the last get with its result
  resolution,      \* the resolver adapter: [identifier, baseDir, files,
                   \*   result]
  tracer           \* the callback-based tracer of the profiling run:
                   \*   [resolved, tree, calls, waiting, done, final,
                   \*   error, finalKeys]

graphVars == <<relation, nodes, permanentNodes, pendingJobs, tickQueue,
               emitted, addedCount, completeCount, completesSinceDrain,
               dispatched, calls, entries, lastStep>>

storeVars == <<storeCfg, jobCache, slots, started, called, handles,
               cachedData, requests, kv, resolution, tracer>>

vars == <<relation, nodes, permanentNodes, pendingJobs, tickQueue, emitted,
          addedCount, completeCount, completesSinceDrain, dispatched,
          calls, entries, lastStep, storeCfg, jobCache, slots, started,
          called, handles, cachedData, requests, kv, resolution, tracer>>

\* ------------------------------------------------------------------ events
Added(n) == [type |-> "added", node |-> n, err |-> "none"]
Pruned(n) == [type |-> "pruned", node |-> n, err |-> "none"]
ErrorEvent(e, n) == [type |-> "error", node |-> n, err |-> e]
Complete == [type |-> "complete", node |-> "none", err |-> "none"]

\* ------------------------------------------------------------ sequence aids
Range(s) == {s[i] : i \in 1..Len(s)}

\* all orderings of a finite set, as sequences
Orderings(S) == {s \in [1..Cardinality(S) -> S] : Range(s) = S}

\* ---------------------------------------------------------- graph helpers
\* utils.js addNode, as the specification describes a graph node: a pair of
\* sets
addNode(ns, n) ==
  [m \in DOMAIN ns \cup {n} |->
     IF m = n THEN [dependencies |-> {}, dependents |-> {}] ELSE ns[m]]

\* utils.js: the edge head -> tail, recorded at both ends
addEdge(ns, head, tail) ==
  [m \in DOMAIN ns |->
     [dependencies |-> IF m = head THEN ns[m].dependencies \cup {tail}
                       ELSE ns[m].dependencies,
      dependents   |-> IF m = tail THEN ns[m].dependents \cup {head}
                       ELSE ns[m].dependents]]

\* ids reachable from the set `from` by dependency edges inside `within`
RECURSIVE ReachableFrom(_, _, _)
ReachableFrom(ns, from, within) ==
  LET next == from \cup
              {d \in within : \E m \in from : d \in ns[m].dependencies}
  IN IF next = from THEN from ELSE ReachableFrom(ns, next, within)

\* utils.js pruneFromNode: the set it removes. `n` itself, and every
\* successor of `n` that no remaining node of `ignore` reaches once `n` is gone.
PrunedSet(ns, n, ignore) ==
  LET rest == DOMAIN ns \ {n}
      successors == ReachableFrom(ns, {n}, DOMAIN ns)
      anchored == ReachableFrom(ns, Range(ignore) \cap rest, rest)
  IN {n} \cup (successors \ anchored)

\* utils.js pruneFromNode returns the removed ids as a list: `n` first, the
\* others in an order the graph does not fix
pruneFromNode(ns, n, ignore) ==
  {<<n>> \o rest : rest \in Orderings(PrunedSet(ns, n, ignore) \ {n})}

\* utils.js pruneFromNode: the graph without the removed nodes and their edges
removeNodes(ns, gone) ==
  [m \in DOMAIN ns \ gone |->
     [dependencies |-> ns[m].dependencies \ gone,
      dependents   |-> ns[m].dependents \ gone]]

\* graph.js:185
isNodeDefined(ns, n) == n \in DOMAIN ns

\* isNodePending without the test of job.isValid
isNodePending_anyJob(jobs, n) == \E i \in 1..Len(jobs) : jobs[i].node = n

\* graph.js:189
isNodePending(jobs, n) ==
  \E i \in 1..Len(jobs) : jobs[i].isValid /\ jobs[i].node = n

\* ensureNodeIsPermanent without the test of line 180
ensureNodeIsPermanent_noTest(perm, n) == Append(perm, n)

\* graph.js:179
ensureNodeIsPermanent(perm, n) ==
  IF n \notin Range(perm) THEN Append(perm, n) ELSE perm

\* graph.js:89  pull(pendingJobs, job): by identity of the job object
removeJob(jobs, id) == SelectSeq(jobs, LAMBDA j : j.id # id)

\* a job object not yet in the list (object identity)
FreshJob(jobs) ==
  CHOOSE i \in 1..(Len(jobs) + 1) : \A k \in 1..Len(jobs) : jobs[k].id # i

StartTask(id) == [kind |-> "start", job |-> id]
CheckTask == [kind |-> "check", job |-> 0]

\* graph.js:79-87  traceNode: push the job, defer startTracingNode
traceNode(st, n) ==
  LET id == FreshJob(st.pendingJobs)
  IN [st EXCEPT
        !.pendingJobs = Append(@, [id |-> id, node |-> n, isValid |-> TRUE,
                                   phase |-> "scheduled",
                                   addedBefore |-> st.addedCount[n]]),
        !.tickQueue = Append(@, StartTask(id))]

\* the graph as the closures of createGraph see it; addedAt is what nodes
\* holds when a callback starts to emit its `added` events
Graph == [nodes |-> nodes, permanentNodes |-> permanentNodes,
          pendingJobs |-> pendingJobs, tickQueue |-> tickQueue,
          nodesAdded |-> <<>>, emitted |-> <<>>, addedCount |-> addedCount,
          addedAt |-> nodes]

\* startTracingNode returning at line 96 without removeJob
startTracingNode_keepsInvalid(g, job) ==
  IF ~job.isValid THEN g
  ELSE [g EXCEPT !.pendingJobs =
          [i \in 1..Len(@) |->
             IF @[i].id = job.id THEN [@[i] EXCEPT !.phase = "inflight"]
             ELSE @[i]]]

\* startTracingNode without the test of lines 95-97
startTracingNode_noCancel(g, job) ==
  [g EXCEPT !.pendingJobs =
     [i \in 1..Len(@) |->
        IF @[i].id = job.id THEN [@[i] EXCEPT !.phase = "inflight"]
        ELSE @[i]]]

\* graph.js:93-99  startTracingNode, up to the call of getDependencies
startTracingNode(g, job) ==
  IF ~job.isValid
  THEN [g EXCEPT !.pendingJobs = removeJob(@, job.id)]
  ELSE [g EXCEPT !.pendingJobs =
          [i \in 1..Len(@) |->
             IF @[i].id = job.id THEN [@[i] EXCEPT !.phase = "inflight"]
             ELSE @[i]]]

\* traceDependencies with lines 123-126 left out: the edge is added without
\* the dependency having been made a node
RECURSIVE traceDependencies_noAddNode(_, _, _)
traceDependencies_noAddNode(g, node, dependencies) ==
  IF dependencies = <<>> THEN g
  ELSE
    LET depNode == Head(dependencies)
        g1 == IF ~isNodeDefined(g.nodes, depNode)
                 /\ ~isNodePending(g.pendingJobs, depNode)
              THEN traceNode(g, depNode) ELSE g
        g3 == [g1 EXCEPT !.nodes = addEdge(@, node, depNode)]
    IN traceDependencies_noAddNode(g3, node, Tail(dependencies))

\* traceDependencies reporting no `added` for the dependencies it adds
RECURSIVE traceDependencies_noAddedForDeps(_, _, _)
traceDependencies_noAddedForDeps(g, node, dependencies) ==
  IF dependencies = <<>> THEN g
  ELSE
    LET depNode == Head(dependencies)
        g1 == IF ~isNodeDefined(g.nodes, depNode)
                 /\ ~isNodePending(g.pendingJobs, depNode)
              THEN traceNode(g, depNode) ELSE g
        g2 == IF ~isNodeDefined(g1.nodes, depNode)
              THEN [g1 EXCEPT !.nodes = addNode(@, depNode)]
              ELSE g1
        g3 == [g2 EXCEPT !.nodes = addEdge(@, node, depNode)]
    IN traceDependencies_noAddedForDeps(g3, node, Tail(dependencies))

\* traceDependencies without line 120: dependencies are never traced
RECURSIVE traceDependencies_noTrace(_, _, _)
traceDependencies_noTrace(g, node, dependencies) ==
  IF dependencies = <<>> THEN g
  ELSE
    LET depNode == Head(dependencies)
        g2 == IF ~isNodeDefined(g.nodes, depNode)
              THEN [g EXCEPT !.nodes = addNode(@, depNode),
                             !.nodesAdded = Append(@, depNode)]
              ELSE g
        g3 == [g2 EXCEPT !.nodes = addEdge(@, node, depNode)]
    IN traceDependencies_noTrace(g3, node, Tail(dependencies))

\* graph.js:118-129  dependencies.forEach(depNode => ...)
RECURSIVE traceDependencies(_, _, _)
traceDependencies(g, node, dependencies) ==
  IF dependencies = <<>> THEN g
  ELSE
    LET depNode == Head(dependencies)
        g1 == IF ~isNodeDefined(g.nodes, depNode)
                 /\ ~isNodePending(g.pendingJobs, depNode)
              THEN traceNode(g, depNode) ELSE g
        g2 == IF ~isNodeDefined(g1.nodes, depNode)
              THEN [g1 EXCEPT !.nodes = addNode(@, depNode),
                              !.nodesAdded = Append(@, depNode)]
              ELSE g1
        g3 == [g2 EXCEPT !.nodes = addEdge(@, node, depNode)]
    IN traceDependencies(g3, node, Tail(dependencies))

\* addDependencies emitting `added` for the node before it handles the
\* dependencies
addDependencies_emitsAtInsertion(g1, job, dependencies) ==
  LET g2 == IF ~isNodeDefined(g1.nodes, job.node)
            THEN [g1 EXCEPT !.nodes = addNode(@, job.node),
                            !.nodesAdded = <<job.node>>]
            ELSE g1
      g3 == traceDependencies(g2, job.node, dependencies)
  IN [g3 EXCEPT
        !.emitted = [i \in 1..Len(g3.nodesAdded) |-> Added(g3.nodesAdded[i])],
        !.addedAt = g2.nodes,
        !.tickQueue = Append(@, CheckTask)]

\* graph.js:111-139, what the callback does with the dependencies of a job
\* that is still valid (g1: the graph once the job has been removed)
addDependencies(g1, job, dependencies) ==
  LET g2 == IF ~isNodeDefined(g1.nodes, job.node)
            THEN [g1 EXCEPT !.nodes = addNode(@, job.node),
                            !.nodesAdded = <<job.node>>]
            ELSE g1
      g3 == traceDependencies(g2, job.node, dependencies)
  IN [g3 EXCEPT
        !.emitted = [i \in 1..Len(g3.nodesAdded) |-> Added(g3.nodesAdded[i])],
        !.addedAt = g3.nodes,
        !.tickQueue = Append(@, CheckTask)]

\* onDependencies with the error test moved behind the insertion of the node
onDependencies_addsBeforeError(g, job, err, dependencies) ==
  LET g1 == [g EXCEPT !.pendingJobs = removeJob(@, job.id)]
      g2 == IF ~isNodeDefined(g1.nodes, job.node)
            THEN [g1 EXCEPT !.nodes = addNode(@, job.node)] ELSE g1
  IN IF err # "none"
     THEN [g2 EXCEPT !.emitted = <<ErrorEvent(err, job.node)>>]
     ELSE IF ~job.isValid THEN g1
     ELSE addDependencies(g1, job, dependencies)

\* onDependencies without the test of job.isValid of line 107
onDependencies_noValidTest(g, job, err, dependencies) ==
  LET g1 == [g EXCEPT !.pendingJobs = removeJob(@, job.id)]
  IN IF err # "none"
     THEN [g1 EXCEPT !.emitted = <<ErrorEvent(err, job.node)>>]
     ELSE addDependencies(g1, job, dependencies)

\* onDependencies treating an error as the end of the trace: the jobs still
\* pending are invalidated
onDependencies_invalidatesOnError(g, job, err, dependencies) ==
  LET g1 == [g EXCEPT !.pendingJobs = removeJob(@, job.id)]
  IN IF err # "none"
     THEN [g1 EXCEPT !.emitted = <<ErrorEvent(err, job.node)>>,
                     !.pendingJobs = [i \in 1..Len(@) |->
                                        [@[i] EXCEPT !.isValid = FALSE]]]
     ELSE IF ~job.isValid
     THEN g1
     ELSE addDependencies(g1, job, dependencies)

\* onDependencies with the validity test of lines 107-109 ahead of the
\* error test of lines 102-104
onDependencies_validityFirst(g, job, err, dependencies) ==
  LET g1 == [g EXCEPT !.pendingJobs = removeJob(@, job.id)]
  IN IF ~job.isValid
     THEN g1
     ELSE IF err # "none"
     THEN [g1 EXCEPT !.emitted = <<ErrorEvent(err, job.node)>>]
     ELSE addDependencies(g1, job, dependencies)

\* graph.js:99-140  the callback handed to getDependencies
onDependencies(g, job, err, dependencies) ==
  LET g1 == [g EXCEPT !.pendingJobs = removeJob(@, job.id)]
  IN IF err # "none"
     THEN [g1 EXCEPT !.emitted = <<ErrorEvent(err, job.node)>>]
     ELSE IF ~job.isValid
     THEN g1
     ELSE addDependencies(g1, job, dependencies)

\* the completion check without the test of pendingJobs.length
completionCheck_noTest(g) == [g EXCEPT !.emitted = <<Complete>>]

\* graph.js:135-139  the deferred completion check
completionCheck(g) ==
  IF Len(g.pendingJobs) = 0 THEN [g EXCEPT !.emitted = <<Complete>>] ELSE g

\* prunePendingJobsAndEmit that leaves the pending jobs as they are
prunePendingJobsAndEmit_emitOnly(g, prunedNodes) ==
  [g EXCEPT
     !.emitted = [i \in 1..Len(prunedNodes) |-> Pruned(prunedNodes[i])]]

\* graph.js:152-158  prunePendingJobsAndEmit, for each id of a list
prunePendingJobsAndEmit(g, prunedNodes) ==
  [g EXCEPT
     !.pendingJobs =
        [i \in 1..Len(@) |->
           IF @[i].node \in Range(prunedNodes)
           THEN [@[i] EXCEPT !.isValid = FALSE] ELSE @[i]],
     !.emitted = [i \in 1..Len(prunedNodes) |-> Pruned(prunedNodes[i])]]

\* pruneNode handing pruneFromNode an empty list in place of permanentNodes
pruneNode_noPermanent(g, node) ==
  IF isNodeDefined(g.nodes, node)
  THEN {prunePendingJobsAndEmit(
          [g EXCEPT !.nodes = removeNodes(@, Range(prunedNodes))], prunedNodes) :
        prunedNodes \in pruneFromNode(g.nodes, node, <<>>)}
  ELSE IF isNodePending(g.pendingJobs, node)
  THEN {prunePendingJobsAndEmit(g, <<node>>)}
  ELSE {g}

\* pruneNode without the branch of lines 148-149 for a node that is only
\* pending
pruneNode_definedOnly(g, node) ==
  IF isNodeDefined(g.nodes, node)
  THEN {prunePendingJobsAndEmit(
          [g EXCEPT !.nodes = removeNodes(@, Range(prunedNodes))], prunedNodes) :
        prunedNodes \in pruneFromNode(g.nodes, node, g.permanentNodes)}
  ELSE {g}

\* graph.js:144-159  pruneNode: the graphs it can leave, one for each list
\* pruneFromNode can return
pruneNode(g, node) ==
  IF isNodeDefined(g.nodes, node)
  THEN {prunePendingJobsAndEmit(
          [g EXCEPT !.nodes = removeNodes(@, Range(prunedNodes))], prunedNodes) :
        prunedNodes \in pruneFromNode(g.nodes, node, g.permanentNodes)}
  ELSE IF isNodePending(g.pendingJobs, node)
  THEN {prunePendingJobsAndEmit(g, <<node>>)}
  ELSE {g}

\* setNodeAsPermanent making a node of an id that is not one
setNodeAsPermanent_addsNode(g, node) ==
  [g EXCEPT !.permanentNodes = ensureNodeIsPermanent(@, node),
            !.nodes = IF isNodeDefined(@, node) THEN @ ELSE addNode(@, node)]

\* graph.js:161-163
setNodeAsPermanent(g, node) ==
  [g EXCEPT !.permanentNodes = ensureNodeIsPermanent(@, node)]

\* ============================================================ record store
\* A file name, as path.dirname, path.basename and path.extname take it
\* apart: the directories, the base name and the extension.
FileName(dir, base, ext) == [dir |-> dir, base |-> base, ext |-> ext]

JsFile == FileName(<<"src">>, "a", ".js")
CssFile == FileName(<<"src">>, "a", ".css")
JsonFile == FileName(<<"src">>, "a", ".json")
PngFile == FileName(<<"src">>, "a", ".png")
BootFile == FileName(<<"rt">>, "bootstrap", ".js")
HotFile == FileName(<<"rt">>, "hot", ".js")
VendoredFile == FileName(<<"node_modules", "p">>, "index", ".js")

\* what getState() returns, but for jobCache
State == [bootstrapRuntime |-> BootFile,
          hotRuntime |-> HotFile,
          rootNodeModules |-> <<"node_modules">>,
          vendorRoot |-> <<"vendor">>,
          sourceRoot |-> <<"src">>,
          rootUrl |-> "/file/"]

\* lodash startsWith(name, root), on the directories of the name
startsWith(name, root) ==
  /\ Len(root) <= Len(name.dir)
  /\ \A i \in 1..Len(root) : name.dir[i] = root[i]

\* JavaScript null
Null == [t |-> "null"]

\* what a promise is rejected with: an Error or a string, with its message
Rejection(message) == [t |-> "rejection", message |-> message]

EmptyMap == [k \in {} |-> Null]

\* obj[key] = value
Put(obj, key, value) ==
  [k \in DOMAIN obj \cup {key} |-> IF k = key THEN value ELSE obj[k]]

\* lodash assign({}, a, b)
assign(a, b) ==
  [k \in DOMAIN a \cup DOMAIN b |-> IF k \in DOMAIN b THEN b[k] ELSE a[k]]

\* lodash zipObject(keys, values)
zipObject(keys, values) ==
  [k \in Range(keys) |->
     values[CHOOSE i \in 1..Len(keys) :
              keys[i] = k /\ \A m \in (i + 1)..Len(keys) : keys[m] # k]]

\* Number.prototype.toString of a natural number
DecimalDigits == <<"0", "1", "2", "3", "4", "5", "6", "7", "8", "9">>

RECURSIVE toString(_)
toString(n) ==
  IF n < 10 THEN DecimalDigits[n + 1]
  ELSE toString(n \div 10) \o DecimalDigits[(n % 10) + 1]

\* dependency identifiers, as lists of characters
DotFoo == <<".", "/", "f">>
SlashBar == <<"/", "b">>
Pkg == <<"p">>

\* browserResolve(id, options): the file found for the identifier
browserResolve(id) == [id |-> id, found |-> "now"]

\* the file an earlier run found for the identifier
foundEarlier(id) == [id |-> id, found |-> "earlier"]

\* overrides of the tests: both resolutions given, with an identifier in both
BothResolved ==
  [j \in {"resolvePathDependencies", "resolvePackageDependencies"} |->
     IF j = "resolvePathDependencies"
     THEN [id \in {DotFoo, Pkg} |-> browserResolve(id)]
     ELSE [id \in {Pkg, SlashBar} |-> foundEarlier(id)]]

\* the jobs of createJobs
Jobs == {"basename", "ext", "isTextFile", "readText", "stat", "mtime",
         "hashText", "hash", "hashedFilename", "hashedName", "cache",
         "cacheKey", "readCache", "url", "sourceUrl", "postcssPlugins",
         "postcssTransformOptions", "postcssTransform",
         "babelTransformOptions", "babelTransform", "babelGeneratorOptions",
         "babelGenerator", "shouldBabelTransform", "babelFile", "babelAst",
         "babylonAst", "ast", "analyzeDependencies", "dependencyIdentifiers",
         "pathDependencyIdentifiers", "packageDependencyIdentifiers",
         "resolverOptions", "resolver", "shouldCacheResolvedPathDependencies",
         "shouldCacheResolvedPackageDependencies", "resolvePathDependencies",
         "resolvePackageDependencies", "resolvedDependencies", "code",
         "moduleContents", "shouldShimModuleDefinition", "moduleCode",
         "moduleDefinition", "content", "sourceMap", "sourceMapAnnotation",
         "mimeType", "fileDependencies", "ready", "writeCache"}

\* the calls the jobs make to libraries, whose outcome is not the jobs'
Ops == {"fs.readFile", "fs.stat", "cache.get", "cache.set", "postcss.process",
        "babel.transform", "babel-generator", "babylon.parse",
        "browserResolve.path", "browserResolve.package"}

\* the jobs that are called from outside the jobs
Requested == {"hash", "cacheKey", "resolvePathDependencies",
              "resolvedDependencies", "code", "moduleDefinition", "content",
              "sourceMap", "ready"}

Unstarted == [state |-> "unstarted", value |-> Null]

\* createTestStore(overrides, state) and store.create(file)
TestStore(file, overrides) == [file |-> file, overrides |-> overrides]

\* overrides of the tests: a job replaced by a function returning a value
IsTextFileTrue == [j \in {"isTextFile"} |-> TRUE]

Stores ==
  {TestStore(f, EmptyMap) :
     f \in {JsFile, CssFile, JsonFile, PngFile, BootFile, VendoredFile}}
  \cup {TestStore(PngFile, IsTextFileTrue), TestStore(JsFile, BothResolved)}

\* fs.stat(name).mtime.getTime()
StatMtime == 1337

\* fs.readFile(name, 'utf8')
FileText == "text"

\* new Murmur(text).result()
Murmur(text) == IF text = FileText THEN 2045 ELSE 0

\* the store as the jobs and the record store see it
Store == [slots |-> slots, started |-> started, called |-> called,
          handles |-> handles, cachedData |-> cachedData, kv |-> kv]

Settled(st, d) == st.slots[d].state \in {"resolved", "failed"}
Failed(st, d) == st.slots[d].state = "failed"
Val(st, d) == st.slots[d].value

\* what the function of a job does next: call store jobs it has not called
\* yet, wait for what it has called, or settle its promise
Need(deps) == [k |-> "need", deps |-> deps]
Wait == [k |-> "wait"]
\* cache.set(key, value) is called
Set(key, value) ==
  [k |-> "need", deps |-> <<"cache.set">>,
   set |-> [key |-> key, value |-> value]]
Resolve(v) == [k |-> "resolve", v |-> v, put |-> <<>>]
Reject(e) == [k |-> "reject", e |-> e]
\* cachedData[key] = v, and v is the value of the promise
Annotate(key, v) == [k |-> "resolve", v |-> v, put |-> <<key, v>>]
\* the promise resolves to a new object with these fields
Allocate(fields) ==
  [k |-> "resolve", v |-> [t |-> "object"], put |-> <<>>, alloc |-> fields]

\* Promise.all(deps.map(d => store[d](ref))).then(values => then), inside
\* the function of job j: the jobs are called, the first rejection rejects
After(st, j, deps, then) ==
  IF \E i \in 1..Len(deps) : deps[i] \notin st.called[j] THEN Need(deps)
  ELSE IF \E i \in 1..Len(deps) : Failed(st, deps[i])
  THEN Reject(Val(st, deps[CHOOSE i \in 1..Len(deps) :
                             /\ Failed(st, deps[i])
                             /\ \A m \in 1..(i - 1) : ~Failed(st, deps[m])]))
  ELSE IF \E i \in 1..Len(deps) : ~Settled(st, deps[i]) THEN Wait
  ELSE then

\* ------------------------------------------------------------------- jobs
\* basename: path.basename(ref.name, path.extname(ref.name))
basename(st) == Resolve(storeCfg.file.base)

\* ext: path.extname(ref.name)
ext(st) == Resolve(storeCfg.file.ext)

isTextFile(st) ==
  After(st, "isTextFile", <<"ext">>,
        Resolve(Val(st, "ext") \in {".js", ".css", ".json"}))

readText(st) ==
  After(st, "readText", <<"fs.readFile">>, Resolve(Val(st, "fs.readFile")))

stat(st) == After(st, "stat", <<"fs.stat">>, Resolve(Val(st, "fs.stat")))

mtime(st) == After(st, "mtime", <<"stat">>, Resolve(Val(st, "stat").mtime))

hashText(st) ==
  After(st, "hashText", <<"readText">>,
        Resolve(toString(Murmur(Val(st, "readText")))))

\* hash: hashText (a string, its own toString) for a text file, mtime (a
\* number) otherwise, then .toString()
hash(st) ==
  After(st, "hash", <<"isTextFile">>,
        LET from == IF Val(st, "isTextFile") THEN "hashText" ELSE "mtime"
        IN After(st, "hash", <<from>>,
                 Resolve(IF from = "mtime" THEN toString(Val(st, from))
                         ELSE Val(st, from))))

hashedFilename(st) ==
  After(st, "hashedFilename", <<"basename", "hash", "ext">>,
        Resolve(Val(st, "basename") \o "-" \o Val(st, "hash")
                \o Val(st, "ext")))

\* path.join(path.dirname(ref.name), hashedFilename)
hashedName(st) ==
  After(st, "hashedName", <<"hashedFilename">>,
        Resolve([dir |-> storeCfg.file.dir,
                 file |-> Val(st, "hashedFilename")]))

\* getState().jobCache
cache(st) == Resolve([t |-> "cache"])

\* cacheKey with the hash in the key of every file
cacheKey_alwaysHash(st) ==
  After(st, "cacheKey", <<"isTextFile">>,
        After(st, "cacheKey", <<"mtime", "hash">>,
              Resolve(<<storeCfg.file, Val(st, "mtime"), Val(st, "hash")>>)))

\* cacheKey: [ref.name, mtime], and hash as well for a text file
cacheKey(st) ==
  After(st, "cacheKey", <<"isTextFile">>,
        LET key == IF Val(st, "isTextFile") THEN <<"mtime", "hash">>
                   ELSE <<"mtime">>
        IN After(st, "cacheKey", key,
                 Resolve(<<storeCfg.file>>
                         \o [i \in 1..Len(key) |-> Val(st, key[i])])))

\* variant: readCache rejects when the cache yields nothing
readCache_rejectsOnNull(st) ==
  After(st, "readCache", <<"cache", "cacheKey">>,
        After(st, "readCache", <<"cache.get">>,
              LET data == Val(st, "cache.get")
              IN IF data.t = "null"
                 THEN Reject(Rejection("nothing cached"))
                 ELSE Allocate(data.fields)))

\* readCache: what cache.get(key) yields, or a new object when it is null
readCache(st) ==
  After(st, "readCache", <<"cache", "cacheKey">>,
        After(st, "readCache", <<"cache.get">>,
              LET data == Val(st, "cache.get")
              IN Allocate(IF data.t = "null" THEN EmptyMap ELSE data.fields)))

\* variant: writeCache passing the entry as cache.get yielded it
writeCache_setsWhatWasRead(st) ==
  After(st, "writeCache", <<"cache", "cacheKey", "readCache">>,
        IF "cache.set" \notin st.called["writeCache"]
        THEN Set(Val(st, "cacheKey"),
                 IF Val(st, "cache.get").t = "null" THEN EmptyMap
                 ELSE Val(st, "cache.get").fields)
        ELSE After(st, "writeCache", <<"cache.set">>,
                   Resolve(Val(st, "cache.set"))))

\* writeCache: cache.set(key, cacheData), with the object of readCache
writeCache(st) ==
  After(st, "writeCache", <<"cache", "cacheKey", "readCache">>,
        IF "cache.set" \notin st.called["writeCache"]
        THEN Set(Val(st, "cacheKey"), st.cachedData)
        ELSE After(st, "writeCache", <<"cache.set">>,
                   Resolve(Val(st, "cache.set"))))

\* variant: the url of every file is made of its name as it is
url_unhashed(st) ==
  After(st, "url", <<"isTextFile">>,
        LET inRoot == startsWith(storeCfg.file, State.sourceRoot)
        IN Resolve([rootUrl |-> State.rootUrl,
                    absolute |-> ~inRoot,
                    dir |-> IF inRoot
                            THEN SubSeq(storeCfg.file.dir,
                                        Len(State.sourceRoot) + 1,
                                        Len(storeCfg.file.dir))
                            ELSE storeCfg.file.dir,
                    file |-> storeCfg.file.base \o storeCfg.file.ext]))

\* url: rootUrl + relPath.split(path.ext).join('/'); path.ext is undefined,
\* and a split at undefined leaves the string whole
url(st) ==
  After(st, "url", <<"isTextFile">>,
        LET from == IF Val(st, "isTextFile") THEN <<"hashedName">> ELSE <<>>
        IN After(st, "url", from,
             LET name == IF Val(st, "isTextFile") THEN Val(st, "hashedName")
                         ELSE [dir |-> storeCfg.file.dir,
                               file |-> storeCfg.file.base
                                        \o storeCfg.file.ext]
                 inRoot == startsWith(name, State.sourceRoot)
             IN Resolve([rootUrl |-> State.rootUrl,
                         absolute |-> ~inRoot,
                         dir |-> IF inRoot
                                 THEN SubSeq(name.dir,
                                             Len(State.sourceRoot) + 1,
                                             Len(name.dir))
                                 ELSE name.dir,
                         file |-> name.file])))

\* sourceUrl: 'file://' + ref.name + '?' + hash
sourceUrl(st) ==
  After(st, "sourceUrl", <<"hash">>,
        Resolve([file |-> storeCfg.file, query |-> Val(st, "hash")]))

postcssPlugins(st) == Resolve(<<>>)

postcssTransformOptions(st) ==
  After(st, "postcssTransformOptions", <<"url", "sourceUrl">>,
        Resolve([from |-> Val(st, "sourceUrl"), to |-> Val(st, "url")]))

postcssTransform(st) ==
  After(st, "postcssTransform",
        <<"readText", "postcssPlugins", "postcssTransformOptions">>,
        After(st, "postcssTransform", <<"postcss.process">>,
              Resolve(Val(st, "postcss.process"))))

babelTransformOptions(st) ==
  After(st, "babelTransformOptions", <<"url", "sourceUrl">>,
        Resolve([filename |-> storeCfg.file,
                 sourceMapTarget |-> Val(st, "url"),
                 sourceFileName |-> Val(st, "sourceUrl")]))

babelTransform(st) ==
  After(st, "babelTransform", <<"readText", "babelTransformOptions">>,
        After(st, "babelTransform", <<"babel.transform">>,
              Resolve(Val(st, "babel.transform"))))

babelGeneratorOptions(st) ==
  After(st, "babelGeneratorOptions", <<"url", "sourceUrl">>,
        Resolve([sourceMapTarget |-> Val(st, "url"),
                 sourceFileName |-> Val(st, "sourceUrl"),
                 minified |-> startsWith(storeCfg.file, State.vendorRoot)]))

babelGenerator(st) ==
  After(st, "babelGenerator",
        <<"readText", "babylonAst", "babelGeneratorOptions">>,
        After(st, "babelGenerator", <<"babel-generator">>,
              Resolve(Val(st, "babel-generator"))))

shouldBabelTransform(st) ==
  Resolve(/\ ~startsWith(storeCfg.file, State.rootNodeModules)
          /\ ~startsWith(storeCfg.file, State.vendorRoot))

babelFile(st) ==
  After(st, "babelFile", <<"shouldBabelTransform">>,
        LET from == IF Val(st, "shouldBabelTransform") THEN "babelTransform"
                    ELSE "babelGenerator"
        IN After(st, "babelFile", <<from>>, Resolve(Val(st, from))))

babelAst(st) ==
  After(st, "babelAst", <<"babelTransform">>,
        Resolve(Val(st, "babelTransform").ast))

babylonAst(st) ==
  After(st, "babylonAst", <<"readText">>,
        After(st, "babylonAst", <<"babylon.parse">>,
              Resolve(Val(st, "babylon.parse"))))

ast(st) ==
  After(st, "ast", <<"ext">>,
        IF Val(st, "ext") = ".js"
        THEN After(st, "ast", <<"shouldBabelTransform">>,
               LET from == IF Val(st, "shouldBabelTransform") THEN "babelAst"
                           ELSE "babylonAst"
               IN After(st, "ast", <<from>>, Resolve(Val(st, from))))
        ELSE Reject(Rejection("Unknown extension, cannot parse")))

\* babylonAstDependencies(ast): the dependencies of the file
AstDependencies(tree) ==
  <<[source |-> DotFoo], [source |-> Pkg], [source |-> SlashBar]>>

analyzeDependencies(st) ==
  After(st, "analyzeDependencies", <<"ext">>,
        IF Val(st, "ext") = ".css"
        THEN After(st, "analyzeDependencies", <<"postcssTransform">>,
                   Resolve(Val(st, "postcssTransform").unfortDependencies))
        ELSE IF Val(st, "ext") = ".js"
        THEN After(st, "analyzeDependencies", <<"ast">>,
                   Resolve(AstDependencies(Val(st, "ast"))))
        ELSE Resolve(<<>>))

\* id.slice(0, id.indexOf(ch)) when ch occurs in id, id otherwise
SliceBefore(id, ch) ==
  IF \E i \in 1..Len(id) : id[i] = ch
  THEN SubSeq(id, 1, (CHOOSE i \in 1..Len(id) :
                        id[i] = ch /\ \A m \in 1..(i - 1) : id[m] # ch) - 1)
  ELSE id

\* variant: url hashes are left in the identifier
CleanIdentifier_keepsHash(id) == SliceBefore(SliceBefore(id, "!"), "?")

\* the part of an identifier that maps to the file system: without webpack
\* loaders, url params and url hashes
CleanIdentifier(id) == SliceBefore(SliceBefore(SliceBefore(id, "!"), "?"), "#")

\* a field of the cache object is there and truthy
Cached(st, key) == key \in DOMAIN st.cachedData

\* dependencyIdentifiers without a look at the cache object
dependencyIdentifiers_recomputes(st) ==
  After(st, "dependencyIdentifiers", <<"readCache">>,
        After(st, "dependencyIdentifiers", <<"analyzeDependencies">>,
          LET deps == Val(st, "analyzeDependencies")
          IN Annotate("dependencyIdentifiers",
                      [i \in 1..Len(deps) |->
                         CleanIdentifier(deps[i].source)])))

dependencyIdentifiers(st) ==
  After(st, "dependencyIdentifiers", <<"readCache">>,
        IF Cached(st, "dependencyIdentifiers")
        THEN Resolve(st.cachedData["dependencyIdentifiers"])
        ELSE After(st, "dependencyIdentifiers", <<"analyzeDependencies">>,
               LET deps == Val(st, "analyzeDependencies")
               IN Annotate("dependencyIdentifiers",
                           [i \in 1..Len(deps) |->
                              CleanIdentifier(deps[i].source)])))

\* id[0] === '.' || path.isAbsolute(id)
StartsWithDot(id) == Len(id) > 0 /\ id[1] = "."

\* path.isAbsolute(id)
isAbsolute(id) == Len(id) > 0 /\ id[1] = "/"

IsPathIdentifier(id) == StartsWithDot(id) \/ isAbsolute(id)

pathDependencyIdentifiers(st) ==
  After(st, "pathDependencyIdentifiers", <<"dependencyIdentifiers">>,
        Resolve(SelectSeq(Val(st, "dependencyIdentifiers"),
                          IsPathIdentifier)))

\* variant: the package identifiers are those that do not start with a dot
packageDependencyIdentifiers_notDotOnly(st) ==
  After(st, "packageDependencyIdentifiers", <<"dependencyIdentifiers">>,
        Resolve(SelectSeq(Val(st, "dependencyIdentifiers"),
                          LAMBDA id : ~StartsWithDot(id))))

\* id[0] !== '.' && !path.isAbsolute(id)
IsPackageIdentifier(id) == ~StartsWithDot(id) /\ ~isAbsolute(id)

packageDependencyIdentifiers(st) ==
  After(st, "packageDependencyIdentifiers", <<"dependencyIdentifiers">>,
        Resolve(SelectSeq(Val(st, "dependencyIdentifiers"),
                          IsPackageIdentifier)))

resolverOptions(st) ==
  Resolve([basedir |-> storeCfg.file.dir, extensions |-> <<".js", ".json">>])

\* resolver: id => browserResolve(id, options)
resolver(st) ==
  After(st, "resolver", <<"resolverOptions">>,
        Resolve([options |-> Val(st, "resolverOptions")]))

shouldCacheResolvedPathDependencies(st) ==
  Resolve(startsWith(storeCfg.file, State.rootNodeModules))

shouldCacheResolvedPackageDependencies(st) == Resolve(TRUE)

\* Promise.all(ids.map(id => resolver(id))) and zipObject(ids, resolved): of
\* no id, the empty object at once
resolveAll(st, j, ids, op, key) ==
  IF ids = <<>> THEN Annotate(key, EmptyMap)
  ELSE After(st, j, <<op>>, Annotate(key, zipObject(ids, Val(st, op))))

\* resolvePathDependencies returning the entry of the cache object whenever
\* there is one
resolvePathDependencies_readsAlways(st) ==
  After(st, "resolvePathDependencies",
        <<"readCache", "shouldCacheResolvedPathDependencies">>,
        IF Cached(st, "resolvePathDependencies")
        THEN Resolve(st.cachedData["resolvePathDependencies"])
        ELSE After(st, "resolvePathDependencies",
                   <<"pathDependencyIdentifiers">>,
               After(st, "resolvePathDependencies", <<"resolver">>,
                 resolveAll(st, "resolvePathDependencies",
                            Val(st, "pathDependencyIdentifiers"),
                            "browserResolve.path",
                            "resolvePathDependencies"))))

\* browser_resolve.js:504-521
resolvePathDependencies(st) ==
  After(st, "resolvePathDependencies",
        <<"readCache", "shouldCacheResolvedPathDependencies">>,
        IF /\ Val(st, "shouldCacheResolvedPathDependencies")
           /\ Cached(st, "resolvePathDependencies")
        THEN Resolve(st.cachedData["resolvePathDependencies"])
        ELSE After(st, "resolvePathDependencies",
                   <<"pathDependencyIdentifiers">>,
               After(st, "resolvePathDependencies", <<"resolver">>,
                 resolveAll(st, "resolvePathDependencies",
                            Val(st, "pathDependencyIdentifiers"),
                            "browserResolve.path",
                            "resolvePathDependencies"))))

resolvePackageDependencies(st) ==
  After(st, "resolvePackageDependencies",
        <<"readCache", "shouldCacheResolvedPackageDependencies">>,
        IF /\ Val(st, "shouldCacheResolvedPackageDependencies")
           /\ Cached(st, "resolvePackageDependencies")
        THEN Resolve(st.cachedData["resolvePackageDependencies"])
        ELSE After(st, "resolvePackageDependencies",
                   <<"packageDependencyIdentifiers">>,
               After(st, "resolvePackageDependencies", <<"resolver">>,
                 resolveAll(st, "resolvePackageDependencies",
                            Val(st, "packageDependencyIdentifiers"),
                            "browserResolve.package",
                            "resolvePackageDependencies"))))

\* resolvedDependencies with a handler that turns a rejection into no
\* dependencies
resolvedDependencies_swallowsErrors(st) ==
  LET deps == <<"resolvePackageDependencies", "resolvePathDependencies">>
  IN IF \E i \in 1..2 : deps[i] \notin st.called["resolvedDependencies"]
     THEN Need(deps)
     ELSE IF \E i \in 1..2 : Failed(st, deps[i]) THEN Resolve(EmptyMap)
     ELSE IF \E i \in 1..2 : ~Settled(st, deps[i]) THEN Wait
     ELSE Resolve(assign(Val(st, deps[1]), Val(st, deps[2])))

\* resolvedDependencies with the two maps merged in the other order
resolvedDependencies_packageWins(st) ==
  After(st, "resolvedDependencies",
        <<"resolvePackageDependencies", "resolvePathDependencies">>,
        Resolve(assign(Val(st, "resolvePathDependencies"),
                       Val(st, "resolvePackageDependencies"))))

\* resolvedDependencies: the callback names the first result (of
\* resolvePackageDependencies) pathDeps and the second packageDeps
resolvedDependencies(st) ==
  After(st, "resolvedDependencies",
        <<"resolvePackageDependencies", "resolvePathDependencies">>,
        LET pathDeps == Val(st, "resolvePackageDependencies")
            packageDeps == Val(st, "resolvePathDependencies")
        IN Resolve(assign(pathDeps, packageDeps)))

\* a JavaScript string, among values that can be null
String(s) == [t |-> "string", v |-> s]

IsRuntime(file) == file = State.bootstrapRuntime \/ file = State.hotRuntime

code(st) ==
  After(st, "code", <<"isTextFile">>,
    IF ~Val(st, "isTextFile") THEN Resolve(Null)
    ELSE After(st, "code", <<"ext", "readCache">>,
      IF Cached(st, "code") THEN Resolve(st.cachedData["code"])
      ELSE IF Val(st, "ext") = ".css"
      THEN After(st, "code", <<"postcssTransform">>,
                 Annotate("code", String(Val(st, "postcssTransform").css)))
      ELSE IF Val(st, "ext") = ".js"
      THEN IF IsRuntime(storeCfg.file)
           THEN After(st, "code", <<"readText">>,
                      Resolve(String(Val(st, "readText"))))
           ELSE After(st, "code", <<"babelFile">>,
                      Annotate("code", String(Val(st, "babelFile").code)))
      ELSE IF Val(st, "ext") = ".json"
      THEN After(st, "code", <<"readText">>,
                 Resolve(String(Val(st, "readText"))))
      ELSE Reject(Rejection("Unknown text file extension. Cannot generate code"))))

\* variant: the contents are the code, whatever the extension
moduleContents_alwaysCode(st) ==
  After(st, "moduleContents", <<"code">>, Resolve(Val(st, "code")))

\* moduleContents: the code, or JSON.stringify(url)
moduleContents(st) ==
  After(st, "moduleContents", <<"ext">>,
    IF Val(st, "ext") \in {".js", ".json"}
    THEN After(st, "moduleContents", <<"code">>, Resolve(Val(st, "code")))
    ELSE After(st, "moduleContents", <<"url">>,
               Resolve([t |-> "json", v |-> Val(st, "url")])))

shouldShimModuleDefinition(st) ==
  After(st, "shouldShimModuleDefinition", <<"ext">>,
        Resolve(Val(st, "ext") # ".js"))

\* moduleCode: the contents, or the shim module that exports them
moduleCode(st) ==
  After(st, "moduleCode", <<"shouldShimModuleDefinition", "moduleContents">>,
    IF ~Val(st, "shouldShimModuleDefinition")
    THEN Resolve(Val(st, "moduleContents"))
    ELSE Resolve([t |-> "shim", default |-> Val(st, "moduleContents")]))

\* utils.js createJSModuleDefinition({name, deps, hash, code})
createJSModuleDefinition(name, deps, hashOf, codeOf) ==
  [t |-> "module", name |-> name, deps |-> deps, hash |-> hashOf,
   code |-> codeOf]

moduleDefinition(st) ==
  IF storeCfg.file = State.bootstrapRuntime THEN Resolve(Null)
  ELSE After(st, "moduleDefinition",
             <<"resolvedDependencies", "hash", "moduleCode">>,
             Resolve(createJSModuleDefinition(
                       storeCfg.file, Val(st, "resolvedDependencies"),
                       Val(st, "hash"), Val(st, "moduleCode"))))

content(st) ==
  After(st, "content", <<"isTextFile", "ext">>,
    IF ~Val(st, "isTextFile") THEN Resolve(Null)
    ELSE IF storeCfg.file = State.bootstrapRuntime \/ Val(st, "ext") = ".css"
    THEN After(st, "content", <<"code">>, Resolve(Val(st, "code")))
    ELSE IF Val(st, "ext") \in {".js", ".json"}
    THEN After(st, "content", <<"moduleDefinition">>,
               Resolve(Val(st, "moduleDefinition")))
    ELSE Reject(Rejection("Unknown text file extension. Cannot generate content")))

\* sourceMap: null for a file that is not text; else what the cache holds,
\* the map of the post-processor, the map of babelFile with its lines
\* offset, or null for .json
sourceMap(st) ==
  After(st, "sourceMap", <<"isTextFile">>,
    IF ~Val(st, "isTextFile") THEN Resolve(Null)
    ELSE After(st, "sourceMap", <<"readCache">>,
      IF Cached(st, "sourceMap") THEN Resolve(st.cachedData["sourceMap"])
      ELSE After(st, "sourceMap", <<"ext">>,
        IF Val(st, "ext") = ".css"
        THEN After(st, "sourceMap", <<"postcssTransform">>,
               Annotate("sourceMap",
                        String(Val(st, "postcssTransform").map)))
        ELSE IF Val(st, "ext") = ".js"
        THEN After(st, "sourceMap", <<"babelFile">>,
               Annotate("sourceMap",
                        String("offset " \o Val(st, "babelFile").map)))
        ELSE IF Val(st, "ext") = ".json" THEN Resolve(Null)
        ELSE Reject(Rejection(
               "Unknown text file extension. Cannot generate source map")))))

\* sourceMapAnnotation: the comment that carries the source map, or null
sourceMapAnnotation(st) ==
  After(st, "sourceMapAnnotation", <<"ext", "sourceMap">>,
    IF \/ Val(st, "sourceMap").t = "null"
       \/ Val(st, "ext") \notin {".css", ".js", ".json"}
    THEN Resolve(Null)
    ELSE IF Val(st, "ext") = ".css"
    THEN Resolve(String("/*# " \o Val(st, "sourceMap").v \o " */"))
    ELSE Resolve(String("//# " \o Val(st, "sourceMap").v)))

\* mimeType: mimeTypes.lookup(ext) || null
mimeType(st) ==
  After(st, "mimeType", <<"ext">>,
    Resolve(CASE Val(st, "ext") = ".js" -> String("application/javascript")
              [] Val(st, "ext") = ".css" -> String("text/css")
              [] Val(st, "ext") = ".json" -> String("application/json")
              [] Val(st, "ext") = ".png" -> String("image/png")
              [] OTHER -> Null))

fileDependencies(st) == Resolve(<<>>)

\* the jobs that ready joins, in the order of its Promise.all
ReadyJobs ==
  <<"hash", "content", "moduleDefinition", "url", "sourceMapAnnotation",
    "hashedFilename", "isTextFile", "mimeType", "fileDependencies">>

\* variant: ready does not join content
ready_withoutContent(st) ==
  LET joined == SelectSeq(ReadyJobs, LAMBDA j : j # "content")
  IN After(st, "ready", joined,
           Resolve(<<storeCfg.file>>
                   \o [i \in 1..Len(ReadyJobs) |-> Val(st, ReadyJobs[i])]))

\* ready: Promise.all([ref.name, ...the nine jobs])
ready(st) ==
  After(st, "ready", ReadyJobs,
        Resolve(<<storeCfg.file>>
                \o [i \in 1..Len(ReadyJobs) |-> Val(st, ReadyJobs[i])]))

\* the function createJobs defines under the name j
JobFunction(j, st) ==
  CASE j = "basename" -> basename(st)
    [] j = "ext" -> ext(st)
    [] j = "isTextFile" -> isTextFile(st)
    [] j = "readText" -> readText(st)
    [] j = "stat" -> stat(st)
    [] j = "mtime" -> mtime(st)
    [] j = "hashText" -> hashText(st)
    [] j = "hash" -> hash(st)
    [] j = "hashedFilename" -> hashedFilename(st)
    [] j = "hashedName" -> hashedName(st)
    [] j = "cache" -> cache(st)
    [] j = "cacheKey" -> cacheKey(st)
    [] j = "readCache" -> readCache(st)
    [] j = "url" -> url(st)
    [] j = "sourceUrl" -> sourceUrl(st)
    [] j = "postcssPlugins" -> postcssPlugins(st)
    [] j = "postcssTransformOptions" -> postcssTransformOptions(st)
    [] j = "postcssTransform" -> postcssTransform(st)
    [] j = "babelTransformOptions" -> babelTransformOptions(st)
    [] j = "babelTransform" -> babelTransform(st)
    [] j = "babelGeneratorOptions" -> babelGeneratorOptions(st)
    [] j = "babelGenerator" -> babelGenerator(st)
    [] j = "shouldBabelTransform" -> shouldBabelTransform(st)
    [] j = "babelFile" -> babelFile(st)
    [] j = "babelAst" -> babelAst(st)
    [] j = "babylonAst" -> babylonAst(st)
    [] j = "ast" -> ast(st)
    [] j = "analyzeDependencies" -> analyzeDependencies(st)
    [] j = "dependencyIdentifiers" -> dependencyIdentifiers(st)
    [] j = "pathDependencyIdentifiers" -> pathDependencyIdentifiers(st)
    [] j = "packageDependencyIdentifiers" -> packageDependencyIdentifiers(st)
    [] j = "resolverOptions" -> resolverOptions(st)
    [] j = "resolver" -> resolver(st)
    [] j = "shouldCacheResolvedPathDependencies" -> shouldCacheResolvedPathDependencies(st)
    [] j = "shouldCacheResolvedPackageDependencies" -> shouldCacheResolvedPackageDependencies(st)
    [] j = "resolvePathDependencies" -> resolvePathDependencies(st)
    [] j = "resolvePackageDependencies" -> resolvePackageDependencies(st)
    [] j = "resolvedDependencies" -> resolvedDependencies(st)
    [] j = "code" -> code(st)
    [] j = "moduleContents" -> moduleContents(st)
    [] j = "shouldShimModuleDefinition" -> shouldShimModuleDefinition(st)
    [] j = "moduleCode" -> moduleCode(st)
    [] j = "moduleDefinition" -> moduleDefinition(st)
    [] j = "content" -> content(st)
    [] j = "sourceMap" -> sourceMap(st)
    [] j = "sourceMapAnnotation" -> sourceMapAnnotation(st)
    [] j = "mimeType" -> mimeType(st)
    [] j = "fileDependencies" -> fileDependencies(st)
    [] j = "ready" -> ready(st)
    [] j = "writeCache" -> writeCache(st)

\* assign(jobs, overrides): an overridden job returns the value of the test
Body(j, st) ==
  IF j \in DOMAIN storeCfg.overrides THEN Resolve(storeCfg.overrides[j])
  ELSE JobFunction(j, st)

\* variant: get reads the durable store only
get_durableOnly(c, key) ==
  IF key \in DOMAIN c.durable THEN {c.durable[key], Null} ELSE {Null}

\* get(key): what it can return: the value in memory, else the value of
\* the durable store, or nothing when that is missing or cannot be read
get(c, key) ==
  IF key \in DOMAIN c.memory THEN {c.memory[key]}
  ELSE IF key \in DOMAIN c.durable THEN {c.durable[key], Null}
  ELSE {Null}

\* set(key, value): memory is written at once, the durable write starts
set(c, key, value) ==
  [c EXCEPT !.memory = Put(@, key, value),
            !.writes = @ \cup {[key |-> key, value |-> value]},
            !.lastSet = Put(@, key, value)]

\* the cache of the process: what earlier processes left, until the first
\* set
CacheOf(st) ==
  IF st.kv = Null
  THEN [memory |-> EmptyMap, durable |-> jobCache, writes |-> {},
        lastSet |-> EmptyMap, got |-> Null]
  ELSE st.kv

\* what the library call `op` resolves to
IoValue(op, st) ==
  CASE op = "fs.readFile" -> FileText
    [] op = "fs.stat" -> [mtime |-> StatMtime]
    [] op = "cache.get" ->
         LET c == CacheOf(st)
             key == Val(st, "cacheKey")
         IN IF key \in DOMAIN c.memory
            THEN [t |-> "object", fields |-> c.memory[key]]
            ELSE IF key \in DOMAIN c.durable
            THEN [t |-> "object", fields |-> c.durable[key]]
            ELSE Null
    [] op = "cache.set" -> Null
    [] op = "postcss.process" ->
         [css |-> "css of " \o Val(st, "readText"), map |-> "css map",
          unfortDependencies |-> <<[source |-> DotFoo]>>]
    [] op = "babel.transform" ->
         [code |-> "babel of " \o Val(st, "readText"), map |-> "babel map",
          ast |-> "babel ast"]
    [] op = "babel-generator" ->
         [code |-> "generated of " \o Val(st, "readText"),
          map |-> "generated map"]
    [] op = "babylon.parse" -> "babylon ast"
    [] op = "browserResolve.path" ->
         [i \in 1..Len(Val(st, "pathDependencyIdentifiers")) |->
            browserResolve(Val(st, "pathDependencyIdentifiers")[i])]
    [] op = "browserResolve.package" ->
         [i \in 1..Len(Val(st, "packageDependencyIdentifiers")) |->
            browserResolve(Val(st, "packageDependencyIdentifiers")[i])]

\* what it rejects with
IoError(op) == Rejection("Error: " \o op)

\* ----------------------------------------------------------- record store
\* invoke keeping only settled promises: a call that finds the job pending
\* invokes its function again
invoke_noPendingMemo(st, d) ==
  LET st1 == IF st.slots[d].state \in {"unstarted", "pending"}
             THEN [st EXCEPT !.slots[d].state = "pending",
                             !.started[d] = @ + 1,
                             !.called[d] = {}]
             ELSE st
  IN [st1 EXCEPT !.handles = @ \cup {<<d, st1.started[d]>>}]

\* invoke keeping only resolved promises: a call that finds the job failed
\* invokes its function again
invoke_retriesFailed(st, d) ==
  LET st1 == IF st.slots[d].state \in {"unstarted", "failed"}
             THEN [st EXCEPT !.slots[d] = [state |-> "pending", value |-> Null],
                             !.started[d] = @ + 1,
                             !.called[d] = {}]
             ELSE st
  IN [st1 EXCEPT !.handles = @ \cup {<<d, st1.started[d]>>}]

\* store[job](ref): the promise of the job for the record, created by
\* invoking the job's function when the record has none yet
invoke(st, d) ==
  LET st1 == IF st.slots[d].state = "unstarted"
             THEN [st EXCEPT !.slots[d].state = "pending",
                             !.started[d] = @ + 1,
                             !.called[d] = {}]
             ELSE st
  IN [st1 EXCEPT !.handles = @ \cup {<<d, st1.started[d]>>}]

\* the function of job j calls the jobs of `deps` it has not called yet
RECURSIVE callAll(_, _, _)
callAll(st, j, deps) ==
  IF deps = <<>> THEN st
  ELSE LET d == Head(deps)
           st1 == IF d \in st.called[j] THEN st
                  ELSE [invoke(st, d) EXCEPT !.called[j] = @ \cup {d}]
       IN callAll(st1, j, Tail(deps))

\* the promise of job j settles
settle(st, j, r) ==
  IF r.k = "reject"
  THEN [st EXCEPT !.slots[j] = [state |-> "failed", value |-> r.e]]
  ELSE LET st1 == [st EXCEPT !.slots[j] =
                                [state |-> "resolved", value |-> r.v]]
       IN IF "alloc" \in DOMAIN r THEN [st1 EXCEPT !.cachedData = r.alloc]
          ELSE IF Len(r.put) = 2
          THEN [st1 EXCEPT !.cachedData = Put(@, r.put[1], r.put[2])]
          ELSE st1

\* the function of the pending job j runs as far as it can
advance(st, j) ==
  LET r == Body(j, st)
  IN IF r.k = "need"
     THEN IF "set" \in DOMAIN r
          THEN callAll([st EXCEPT !.kv = set(CacheOf(st), r.set.key,
                                             r.set.value)], j, r.deps)
          ELSE callAll(st, j, r.deps)
     ELSE IF r.k = "wait" THEN st
     ELSE settle(st, j, r)

CanAdvance(st, j) == st.slots[j].state = "pending" /\ Body(j, st).k # "wait"

\* the jobs run until each pending one waits for a library call
RECURSIVE run(_)
run(st) ==
  IF \E j \in Jobs : CanAdvance(st, j)
  THEN run(advance(st, CHOOSE j \in Jobs : CanAdvance(st, j)))
  ELSE st

\* a store with a record on which no job has been called
NoJobCalled ==
  /\ slots = [x \in Jobs \cup Ops |-> Unstarted]
  /\ started = [x \in Jobs \cup Ops |-> 0]
  /\ called = [x \in Jobs \cup Ops |-> {}]
  /\ handles = {}
  /\ cachedData = EmptyMap
  /\ requests = 0
  /\ kv = Null
  /\ resolution = Null
  /\ tracer = Null

\* no store has been created: the graph is used on its own
StoreIdle ==
  /\ storeCfg = Null
  /\ jobCache = EmptyMap
  /\ slots = EmptyMap
  /\ started = EmptyMap
  /\ called = EmptyMap
  /\ handles = {}
  /\ cachedData = EmptyMap
  /\ requests = 0

\* ------------------------------------------------------------ bookkeeping
CountType(evs, t) == Cardinality({i \in 1..Len(evs) : evs[i].type = t})

CountAdded(evs, n) ==
  Cardinality({i \in 1..Len(evs) : evs[i] = Added(n)})

\* The step from the current graph to g (worked out once): the program's
\* variables and the counters kept about the events.
Becomes(g) ==
  \E to \in {g} :
    /\ nodes' = to.nodes
    /\ permanentNodes' = to.permanentNodes
    /\ pendingJobs' = to.pendingJobs
    /\ tickQueue' = to.tickQueue
    /\ emitted' = to.emitted
    /\ addedCount' = [n \in Nodes |-> addedCount[n] + CountAdded(to.emitted, n)]
    /\ completeCount' = completeCount + CountType(to.emitted, "complete")
    /\ completesSinceDrain' =
         IF pendingJobs # <<>> /\ to.pendingJobs = <<>> THEN 0
         ELSE completesSinceDrain + CountType(to.emitted, "complete")
    /\ UNCHANGED relation
    /\ UNCHANGED storeVars

\* ---------------------------------------------------------------- actions
Step(op, n, valid) == [op |-> op, node |-> n, valid |-> valid]

Init ==
  /\ relation \in Relations
  /\ nodes = <<>>
  /\ permanentNodes = <<>>
  /\ pendingJobs = <<>>
  /\ tickQueue = <<>>
  /\ emitted = <<>>
  /\ addedCount = [n \in Nodes |-> 0]
  /\ completeCount = 0
  /\ completesSinceDrain = 0
  /\ dispatched = FALSE
  /\ calls = 0
  /\ entries = {}
  /\ lastStep = Step("init", "none", TRUE)
  /\ StoreIdle
  /\ kv = Null
  /\ resolution = Null
  /\ tracer = Null

\* the caller: graph.traceNode(n)
TraceNode ==
  \E n \in Nodes :
    /\ calls < MaxCalls
    /\ Becomes(traceNode(Graph, n))
    /\ calls' = calls + 1
    /\ entries' = entries \cup {n}
    /\ lastStep' = Step("trace", n, TRUE)
    /\ UNCHANGED dispatched

\* the caller: graph.pruneNode(n)
PruneNode ==
  \E n \in Nodes :
    /\ calls < MaxCalls
    /\ \E g \in pruneNode(Graph, n) : Becomes(g)
    /\ calls' = calls + 1
    /\ lastStep' = Step("prune", n, TRUE)
    /\ UNCHANGED <<dispatched, entries>>

\* the caller: graph.setNodeAsPermanent(n)
SetNodeAsPermanent ==
  \E n \in Nodes :
    /\ calls < MaxCalls
    /\ Becomes(setNodeAsPermanent(Graph, n))
    /\ calls' = calls + 1
    /\ lastStep' = Step("permanent", n, TRUE)
    /\ UNCHANGED <<dispatched, entries>>

JobOf(id) == CHOOSE j \in Range(pendingJobs) : j.id = id

\* next tick: startTracingNode of the job at the head of the queue
StartTracingNode ==
  /\ tickQueue # <<>>
  /\ Head(tickQueue).kind = "start"
  /\ LET job == JobOf(Head(tickQueue).job)
     IN /\ Becomes(startTracingNode([Graph EXCEPT !.tickQueue = Tail(@)], job))
        /\ dispatched' = (dispatched \/ job.isValid)
        /\ lastStep' = Step("start", job.node, job.isValid)
  /\ UNCHANGED <<calls, entries>>

\* getDependencies calls back with the dependencies of the node
DependenciesResolved ==
  \E i \in 1..Len(pendingJobs) :
    /\ pendingJobs[i].phase = "inflight"
    /\ Becomes(onDependencies(Graph, pendingJobs[i], "none",
                              relation[pendingJobs[i].node]))
    /\ lastStep' = Step("resolved", pendingJobs[i].node, pendingJobs[i].isValid)
    /\ UNCHANGED <<dispatched, calls, entries>>

\* getDependencies calls back with an error
DependenciesFailed ==
  \E i \in 1..Len(pendingJobs), e \in Errors :
    /\ pendingJobs[i].phase = "inflight"
    /\ Becomes(onDependencies(Graph, pendingJobs[i], e, <<>>))
    /\ lastStep' = Step("failed", pendingJobs[i].node, pendingJobs[i].isValid)
    /\ UNCHANGED <<dispatched, calls, entries>>

\* next tick: the completion check at the head of the queue
CompletionCheck ==
  /\ tickQueue # <<>>
  /\ Head(tickQueue).kind = "check"
  /\ Becomes(completionCheck([Graph EXCEPT !.tickQueue = Tail(@)]))
  /\ lastStep' = Step("check", "none", TRUE)
  /\ UNCHANGED <<dispatched, calls, entries>>

Next ==
  \/ TraceNode
  \/ PruneNode
  \/ SetNodeAsPermanent
  \/ StartTracingNode
  \/ DependenciesResolved
  \/ DependenciesFailed
  \/ CompletionCheck

Spec == Init /\ [][Next]_vars

\* Tracing only: the caller traces entries, getDependencies always succeeds,
\* nothing is pruned.  The event loop keeps running callbacks while there
\* are any: a deferred callback, or the callback of a getDependencies in
\* flight.
RunCallback ==
  StartTracingNode \/ DependenciesResolved \/ CompletionCheck

TraceEntry == calls < MaxEntries /\ TraceNode

TraceNext ==
  \/ TraceEntry
  \/ StartTracingNode
  \/ DependenciesResolved
  \/ CompletionCheck

TraceSpec ==
  /\ Init
  /\ [][TraceNext]_vars
  /\ WF_vars(RunCallback)

\* Tracing only, with a getDependencies that may report an error: the caller
\* traces entries, nothing is pruned, and every getDependencies in flight
\* calls back, with the dependencies or with an error.
RunFaultyCallback == RunCallback \/ DependenciesFailed

FaultyNext ==
  \/ TraceEntry
  \/ StartTracingNode
  \/ DependenciesResolved
  \/ DependenciesFailed
  \/ CompletionCheck

FaultySpec ==
  /\ Init
  /\ [][FaultyNext]_vars
  /\ WF_vars(RunFaultyCallback)

\* Finitely many calls of trace and prune, at any time, a getDependencies
\* that calls back once for each call, with the dependencies or with an
\* error, and an event loop that keeps running callbacks while there are
\* any.
FairNext ==
  \/ TraceEntry
  \/ (calls < MaxEntries /\ PruneNode)
  \/ StartTracingNode
  \/ DependenciesResolved
  \/ DependenciesFailed
  \/ CompletionCheck

FairSpec ==
  /\ Init
  /\ [][FairNext]_vars
  /\ WF_vars(RunFaultyCallback)

\* ------------------------------------------------------ the store's steps
\* a graph that is not used
GraphIdle ==
  /\ relation = CycleDeps
  /\ nodes = <<>>
  /\ permanentNodes = <<>>
  /\ pendingJobs = <<>>
  /\ tickQueue = <<>>
  /\ emitted = <<>>
  /\ addedCount = [n \in Nodes |-> 0]
  /\ completeCount = 0
  /\ completesSinceDrain = 0
  /\ dispatched = FALSE
  /\ calls = 0
  /\ entries = {}
  /\ lastStep = Step("init", "none", TRUE)

\* the fields an earlier run left in the cache for a file: the identifiers
\* its text yields, what they resolved to then, and the code and source map
\* of that run, whose configuration the cache key does not hold
WarmFields(file) ==
  LET identifiers ==
        CASE file.ext = ".js" ->
               [i \in 1..Len(AstDependencies(Null)) |->
                  CleanIdentifier(AstDependencies(Null)[i].source)]
          [] file.ext = ".css" -> <<DotFoo>>
          [] OTHER -> <<>>
  IN [k \in {"dependencyIdentifiers", "resolvePathDependencies",
             "resolvePackageDependencies", "code", "sourceMap"} |->
        CASE k = "dependencyIdentifiers" -> identifiers
          [] k = "resolvePathDependencies" ->
               [id \in Range(SelectSeq(identifiers, IsPathIdentifier)) |->
                  foundEarlier(id)]
          [] k = "resolvePackageDependencies" ->
               [id \in Range(SelectSeq(identifiers, IsPackageIdentifier)) |->
                  foundEarlier(id)]
          [] k = "code" -> String("code of an earlier run")
          [] k = "sourceMap" -> String("source map of an earlier run")]

\* the keys a record of the file can be cached under
CacheKeys(file) ==
  {<<file, StatMtime>>, <<file, StatMtime, toString(Murmur(FileText))>>}

\* what the cache can hold when the store is created: nothing, or the
\* fields of an earlier run of the file
JobCaches(file) ==
  {EmptyMap, [k \in CacheKeys(file) |-> WarmFields(file)]}

StoreInit ==
  /\ GraphIdle
  /\ storeCfg \in Stores
  /\ jobCache \in JobCaches(storeCfg.file)
  /\ NoJobCalled

StoreBecomes(st) ==
  /\ slots' = st.slots
  /\ started' = st.started
  /\ called' = st.called
  /\ handles' = st.handles
  /\ cachedData' = st.cachedData
  /\ kv' = st.kv
  /\ UNCHANGED <<storeCfg, jobCache, graphVars, resolution, tracer>>

\* a caller outside the jobs calls store[j](ref)
RequestOf(js) ==
  \E j \in js :
    /\ requests < MaxRequests
    /\ StoreBecomes(run(invoke(Store, j)))
    /\ requests' = requests + 1

Request == RequestOf(Requested)

\* a library call resolves its promise
IoResolved ==
  \E op \in Ops :
    /\ slots[op].state = "pending"
    /\ StoreBecomes(run([Store EXCEPT !.slots[op] =
                           [state |-> "resolved",
                            value |-> IoValue(op, Store)]]))
    /\ UNCHANGED requests

\* a library call rejects its promise
IoFailed ==
  \E op \in Ops \ {"cache.get", "cache.set"} :
    /\ slots[op].state = "pending"
    /\ StoreBecomes(run([Store EXCEPT !.slots[op] =
                           [state |-> "failed", value |-> IoError(op)]]))
    /\ UNCHANGED requests

\* the cache fails to read or parse an entry: get logs it and yields nothing
CacheGetFailed ==
  /\ slots["cache.get"].state = "pending"
  /\ slots["cacheKey"].value \notin DOMAIN CacheOf(Store).memory
  /\ StoreBecomes(run([Store EXCEPT !.slots["cache.get"] =
                         [state |-> "resolved", value |-> Null]]))
  /\ UNCHANGED requests

StoreNext ==
  \/ Request
  \/ IoResolved
  \/ IoFailed
  \/ CacheGetFailed

StoreSpec == StoreInit /\ [][StoreNext]_vars

\* ------------------------------------------------- writing the cache back
\* The caller has jobs of a record run and writes its cache object back;
\* once the record is at rest it is removed and the file gets a new record,
\* in the same process.
WriteRequest ==
  RequestOf({"resolvedDependencies", "code", "writeCache"})

\* store.remove(ref), store.create(ref)
NewRecord ==
  /\ slots["writeCache"].state = "resolved"
  /\ Cardinality(kv.writes) <= MaxWrites
  /\ \A x \in Jobs \cup Ops : slots[x].state # "pending"
  /\ slots' = [x \in Jobs \cup Ops |-> Unstarted]
  /\ started' = [x \in Jobs \cup Ops |-> 0]
  /\ called' = [x \in Jobs \cup Ops |-> {}]
  /\ handles' = {}
  /\ cachedData' = EmptyMap
  /\ requests' = 0
  /\ UNCHANGED <<storeCfg, jobCache, graphVars, kv, resolution, tracer>>

WriteNext ==
  \/ WriteRequest
  \/ IoResolved
  \/ IoFailed
  \/ CacheGetFailed
  \/ NewRecord

\* the files whose jobs annotate the cache object, with the default jobs
WriteInit ==
  /\ StoreInit
  /\ storeCfg \in {TestStore(f, EmptyMap) : f \in {JsFile, CssFile, VendoredFile}}

WriteSpec == WriteInit /\ [][WriteNext]_vars

\* ----------------------------------------------- the analyzed identifiers
\* what analyzeDependencies can yield: no dependency, one, or two of which
\* one has a single character at most, in either order; a source string has
\* up to MaxIdLen characters, each a marker or another character
AnalyzedLists ==
  LET Alphabet == {"a", "!", "?", "#"}
      Sources == UNION {[1..n -> Alphabet] : n \in 0..MaxIdLen}
      short == {<<>>} \cup {<<c>> : c \in Alphabet}
  IN {<<>>} \cup {<<[source |-> a]>> : a \in Sources}
     \cup {<<[source |-> a], [source |-> b]>> : a \in Sources, b \in short}
     \cup {<<[source |-> b], [source |-> a]>> : a \in Sources, b \in short}

\* a store of the tests, with an empty cache object for readCache and
\* analyzed dependencies for analyzeDependencies
IdentifierInit ==
  /\ GraphIdle
  /\ storeCfg \in
       {TestStore(JsFile, [j \in {"readCache", "analyzeDependencies"} |->
                            IF j = "readCache" THEN EmptyMap ELSE deps]) :
          deps \in AnalyzedLists}
  /\ jobCache = EmptyMap
  /\ NoJobCalled

RequestIdentifiers == RequestOf({"dependencyIdentifiers"})

IdentifierSpec == IdentifierInit /\ [][RequestIdentifiers]_vars

\* ------------------------------------------- path and package identifiers
\* a store of the tests, with an empty cache object for readCache and a
\* list of identifiers for dependencyIdentifiers: relative, absolute,
\* package and empty identifiers, in any order, repeated or not
PartitionInit ==
  /\ GraphIdle
  /\ storeCfg \in
       {TestStore(JsFile, [j \in {"readCache", "dependencyIdentifiers"} |->
                            IF j = "readCache" THEN EmptyMap ELSE ids]) :
          ids \in UNION {[1..n -> {DotFoo, SlashBar, Pkg, <<>>}] :
                           n \in 0..MaxIds}}
  /\ jobCache = EmptyMap
  /\ NoJobCalled

PartitionNext ==
  \/ RequestOf({"pathDependencyIdentifiers", "packageDependencyIdentifiers",
                "resolvedDependencies"})
  \/ IoResolved
  \/ IoFailed

PartitionSpec == PartitionInit /\ [][PartitionNext]_vars

\* -------------------------------------------------------- cache substrate
\* The cache of the jobs and of the tracer (kv-file-cache): an in-memory
\* layer written through to a durable store by asynchronous writes.
KvKeys == {"test key", "other key"}

KvValues == {String("test data"), String("test cache data")}

\* a process starts with an empty memory, over what earlier processes left
KvInit ==
  /\ GraphIdle
  /\ StoreIdle
  /\ resolution = Null
  /\ tracer = Null
  /\ \E held \in SUBSET KvKeys, value \in KvValues :
       kv = [memory |-> EmptyMap,
             durable |-> [key \in held |-> value],
             writes |-> {},
             lastSet |-> EmptyMap,
             got |-> Null]

KvBecomes(c) == kv' = c /\ UNCHANGED <<graphVars, storeCfg, jobCache, slots,
                                        started, called, handles, cachedData,
                                        requests, resolution, tracer>>

KvSet ==
  \E key \in KvKeys, value \in KvValues : KvBecomes(set(kv, key, value))

KvGet ==
  \E key \in KvKeys :
    \E value \in get(kv, key) :
      KvBecomes([kv EXCEPT !.got = [key |-> key, value |-> value]])

\* a durable write finishes
KvWritten ==
  \E w \in kv.writes :
    KvBecomes([kv EXCEPT !.durable = Put(@, w.key, w.value),
                         !.writes = @ \ {w}])

\* a durable write fails: the error is logged, not surfaced
KvWriteFailed ==
  \E w \in kv.writes : KvBecomes([kv EXCEPT !.writes = @ \ {w}])

KvNext ==
  \/ KvSet
  \/ KvGet
  \/ KvWritten
  \/ KvWriteFailed

KvSpec == KvInit /\ [][KvNext]_vars

\* ------------------------------------------------------- resolver adapter
\* browserResolver({dependency, basedir}, cb): the file an identifier
\* stands for when required from a directory. Directories and files are
\* lists of path segments.
\* nodeCoreLibs: the packages that replace node core libraries
CoreShims == [id \in {<<"path">>} |-> <<"shims", "path.js">>]

\* the files a resolution of id from baseDir looks for, most wanted first:
\* the file itself for a relative or absolute identifier; for a package,
\* its `browser` file, then its main file, in the node_modules of baseDir
\* and of each directory above it, nearest first
Candidates(id, baseDir) ==
  IF isAbsolute(id) THEN <<SubSeq(id, 2, Len(id))>>
  ELSE IF StartsWithDot(id) THEN <<baseDir \o SubSeq(id, 3, Len(id))>>
  ELSE LET up(i) == SubSeq(baseDir, 1, Len(baseDir) - ((i - 1) \div 2))
                    \o <<"node_modules">> \o id
       IN [i \in 1..(2 * (Len(baseDir) + 1)) |->
             up(i) \o (IF i % 2 = 1 THEN <<"browser.js">>
                       ELSE <<"index.js">>)]

\* variant: the error names the identifier only
browserResolver_bareError(id, baseDir, files) ==
  LET found == SelectSeq(Candidates(id, baseDir), LAMBDA f : f \in files)
  IN IF id \in DOMAIN CoreShims THEN [t |-> "path", path |-> CoreShims[id]]
     ELSE IF found # <<>> THEN [t |-> "path", path |-> found[1]]
     ELSE [t |-> "error",
           message |-> [text |-> "Cannot find module", identifier |-> id]]

browserResolver(id, baseDir, files) ==
  LET found == SelectSeq(Candidates(id, baseDir), LAMBDA f : f \in files)
  IN IF id \in DOMAIN CoreShims THEN [t |-> "path", path |-> CoreShims[id]]
     ELSE IF found # <<>> THEN [t |-> "path", path |-> found[1]]
     ELSE [t |-> "error",
           message |-> [text |-> "Cannot find module", identifier |-> id,
                        from |-> baseDir]]

\* an identifier, a directory and the files there are
ResolverInit ==
  /\ GraphIdle
  /\ StoreIdle
  /\ kv = Null
  /\ tracer = Null
  /\ \E id \in {DotFoo, SlashBar, Pkg, <<"path">>},
        baseDir \in {<<"src">>, <<"src", "lib">>},
        files \in SUBSET {<<"src", "f">>, <<"src", "lib", "f">>, <<"b">>,
                          <<"src", "node_modules", "p", "browser.js">>,
                          <<"node_modules", "p", "browser.js">>,
                          <<"node_modules", "p", "index.js">>} :
       resolution = [identifier |-> id, baseDir |-> baseDir, files |-> files,
                     result |-> Null]

ResolveIdentifier ==
  /\ resolution.result = Null
  /\ resolution' =
       [resolution EXCEPT !.result =
          browserResolver(resolution.identifier, resolution.baseDir,
                          resolution.files)]
  /\ UNCHANGED <<graphVars, storeCfg, jobCache, slots, started, called,
                 handles, cachedData, requests, kv, tracer>>

ResolverSpec == ResolverInit /\ [][ResolveIdentifier]_vars

\* ------------------------------------------------- callback-based tracer
\* trace(caches, cb) of the profiling run: traceFile on each entry point,
\* in parallel, and on every file that a traced file resolves to and that
\* `tree` does not hold yet.
TracerFiles == {"a", "b", "c", "d"}

\* the entry points handed to async.parallel
TracerEntries == <<"a", "b">>

\* what getResolvedDependencies yields for each file: a file reached from
\* two parents; entry points and files that depend on each other or on
\* themselves; a file that two identifiers of its parent resolve to
TracerResolutions ==
  {[f \in TracerFiles |-> CASE f = "a" -> <<"c", "d">>
                           [] f = "b" -> <<"c">>
                           [] f = "c" -> <<"d">>
                           [] f = "d" -> <<>>],
   [f \in TracerFiles |-> CASE f = "a" -> <<"b", "c">>
                           [] f = "b" -> <<"a">>
                           [] f = "c" -> <<"c">>
                           [] f = "d" -> <<>>],
   [f \in TracerFiles |-> CASE f = "a" -> <<"c", "c">>
                           [] f = "b" -> <<>>
                           [] f = "c" -> <<>>
                           [] f = "d" -> <<>>]}

\* the values that `tree` holds for a path: an array, or Object.create(null)
Array(items) == [t |-> "array", items |-> items]
BareObject == [t |-> "object"]

\* part_000:162-165  traceFile up to the call of fs.stat; `parent` is the
\* call of traceFile whose async.map started this one, 0 for an entry point
traceFile(tr, file, parent) ==
  [tr EXCEPT !.tree = Put(@, file, Array(<<>>)),
             !.calls = Append(@, [file |-> file, parent |-> parent,
                                  phase |-> "stat", waiting |-> 0])]

\* async.map(untracedFiles, traceFile, cb): traceFile on each, in order
RECURSIVE traceEach(_, _, _)
traceEach(tr, files, parent) ==
  IF files = <<>> THEN tr
  ELSE traceEach(traceFile(tr, Head(files), parent), Tail(files), parent)

\* the callback of call i of traceFile is called: the callback of the
\* async.map of its parent, or of async.parallel, which call their own
\* callback once, at the first error or when every task has called back;
\* err is the message of the error, "" without one
RECURSIVE callBack(_, _, _)
callBack(tr, i, err) ==
  LET tr1 == [tr EXCEPT !.calls[i].phase = "done"]
      p == tr.calls[i].parent
  IN IF p = 0
     THEN IF tr1.done THEN tr1
          ELSE IF err # "" \/ tr1.waiting = 1
          THEN [tr1 EXCEPT !.done = TRUE,
                           !.waiting = IF err # "" THEN @ ELSE 0,
                           !.final = @ + 1,
                           !.error = err,
                           !.finalKeys = DOMAIN tr1.tree]
          ELSE [tr1 EXCEPT !.waiting = @ - 1]
     ELSE IF tr1.calls[p].phase = "done" THEN tr1
          ELSE IF err # "" THEN callBack(tr1, p, err)
          ELSE IF tr1.calls[p].waiting = 1
          THEN callBack([tr1 EXCEPT !.calls[p].waiting = 0], p, "")
          ELSE [tr1 EXCEPT !.calls[p].waiting = @ - 1]

\* part_000:168-191  the callback of getResolvedDependencies, without error
onResolved(tr, i) ==
  LET file == tr.calls[i].file
      resolved == tr.resolved[file]
      tr1 == [tr EXCEPT !.tree = Put(@, file, Array(resolved))]
      untracedFiles == SelectSeq(resolved, LAMBDA f : f \notin DOMAIN tr1.tree)
  IN IF untracedFiles # <<>>
     THEN traceEach(
            [tr1 EXCEPT
               !.tree = [f \in DOMAIN @ \cup Range(untracedFiles) |->
                           IF f \in Range(untracedFiles) THEN BareObject
                           ELSE @[f]],
               !.calls[i].phase = "children",
               !.calls[i].waiting = Len(untracedFiles)],
            untracedFiles, i)
     ELSE callBack(tr1, i, "")

\* part_000:195-203  trace(caches, cb) has been called
TracerInit ==
  /\ GraphIdle
  /\ StoreIdle
  /\ kv = Null
  /\ resolution = Null
  /\ \E resolved \in TracerResolutions :
       tracer = traceEach([resolved |-> resolved, tree |-> EmptyMap,
                           calls |-> <<>>, waiting |-> Len(TracerEntries),
                           done |-> FALSE, final |-> 0, error |-> "",
                           finalKeys |-> {}],
                          TracerEntries, 0)

TracerBecomes(tr) ==
  /\ tracer' = tr
  /\ UNCHANGED <<graphVars, storeCfg, jobCache, slots, started, called,
                 handles, cachedData, requests, kv, resolution>>

\* fs.stat calls back with the stat of the file
StatDone ==
  \E i \in 1..Len(tracer.calls) :
    /\ tracer.calls[i].phase = "stat"
    /\ TracerBecomes([tracer EXCEPT !.calls[i].phase = "resolve"])

\* fs.stat calls back with an error
StatFailed ==
  \E i \in 1..Len(tracer.calls) :
    /\ tracer.calls[i].phase = "stat"
    /\ TracerBecomes(callBack(tracer, i, "ENOENT"))

\* getResolvedDependencies calls back with the resolved paths
DependenciesTraced ==
  \E i \in 1..Len(tracer.calls) :
    /\ tracer.calls[i].phase = "resolve"
    /\ TracerBecomes(onResolved(tracer, i))

\* part_000:169-172  getResolvedDependencies calls back with an error,
\* whose message gets the file as a prefix
ResolutionFailed ==
  \E i \in 1..Len(tracer.calls) :
    /\ tracer.calls[i].phase = "resolve"
    /\ TracerBecomes(callBack(tracer, i, "File: " \o tracer.calls[i].file))

TracerNext ==
  \/ StatDone
  \/ StatFailed
  \/ DependenciesTraced
  \/ ResolutionFailed

TracerSpec == TracerInit /\ [][TracerNext]_vars

\* ============================================================ properties
HasEvent(evs, t) == \E i \in 1..Len(evs) : evs[i].type = t

Quiescent == pendingJobs = <<>> /\ tickQueue = <<>>

\* C1: in every reachable state, after any trace completions and prunes, for
\* all ids a and b: b is a dependency of a iff a is a dependent of b, and
\* both ends of every edge are nodes of the graph.
C1_EdgeSymmetry ==
  \A a \in DOMAIN nodes :
    /\ \A b \in nodes[a].dependencies :
         b \in DOMAIN nodes /\ a \in nodes[b].dependents
    /\ \A b \in nodes[a].dependents :
         b \in DOMAIN nodes /\ a \in nodes[b].dependencies

\* C1 witness: a prune has just removed nodes and edges remain
C1_Witness ==
  /\ lastStep.op = "prune"
  /\ HasEvent(emitted, "pruned")
  /\ \E a \in DOMAIN nodes : nodes[a].dependencies # {}

\* C2: once a trace has been dispatched, whenever pendingJobs has become
\* empty `complete` is emitted, whichever way the last job finished: when
\* nothing is left to run, a `complete` has been emitted since the drain.
C2_CompleteWhenDrained ==
  (dispatched /\ Quiescent) => completesSinceDrain >= 1

\* C3: in each period in which pendingJobs has drained and stays empty,
\* `complete` is emitted at most once.
C3_AtMostOneCompletePerDrain == completesSinceDrain <= 1

\* the permanent nodes that are in the graph ns
Roots(ns) == Range(permanentNodes) \cap DOMAIN ns

\* the nodes of ns that dependency edges reach from a permanent node
Anchored(ns) == ReachableFrom(ns, Roots(ns), DOMAIN ns)

\* C4 as claimed: after any prune every node left in the graph is reachable
\* by dependency edges from a permanent node (so every node that is not has
\* been removed).
C4_AllAnchoredAfterPrune ==
  lastStep.op = "prune" => DOMAIN nodes \subseteq Anchored(nodes)

\* C4 as amended: pruneNode(x) of a node x of the graph removes x; of the
\* nodes that dependency edges reached from x, the ones left are exactly
\* those a permanent node other than x reaches in the graph that is left; the
\* nodes x did not reach are all left in the graph.
C4_PruneRemovesUnanchoredSuccessors ==
  [][\A x \in DOMAIN nodes :
       (lastStep'.op = "prune" /\ lastStep'.node = x) =>
         LET successors == ReachableFrom(nodes, {x}, DOMAIN nodes)
             left == DOMAIN nodes'
             anchored == ReachableFrom(nodes', Range(permanentNodes') \cap left,
                                       left)
         IN /\ x \notin left
            /\ left \subseteq DOMAIN nodes
            /\ DOMAIN nodes \ successors \subseteq left
            /\ (successors \ {x}) \cap left = (successors \ {x}) \cap anchored
            /\ \A m \in (successors \ {x}) \cap Range(permanentNodes) :
                 m \in left]_vars

\* C4 witness: a prune has removed the pruned node only; a successor of it
\* that is not permanent is left, reached from a permanent node
C4_Witness ==
  /\ lastStep.op = "prune"
  /\ emitted = <<Pruned(lastStep.node)>>
  /\ lastStep.node \notin DOMAIN nodes
  /\ \E m \in Anchored(nodes) \ Range(permanentNodes) : nodes[m].dependents # {}

\* the step just taken was the end of a job: dropped before dispatch, or
\* its getDependencies called back
JobFinished(step) == step.op \in {"start", "resolved", "failed"}

\* the pending job that the step just taken (to the primed state) finished
FinishedJobs ==
  {j \in Range(pendingJobs) :
     /\ j.node = lastStep'.node
     /\ j.isValid = lastStep'.valid
     /\ j.phase = (IF lastStep'.op = "start" THEN "scheduled" ELSE "inflight")
     /\ j \notin Range(pendingJobs')}

\* C5 as claimed: when getDependencies has reported an error for a node,
\* `error` is emitted with (err, node) and the node is not in the graph.
C5_FailedNodeAbsent ==
  lastStep.op = "failed" =>
    /\ \E e \in Errors : emitted = <<ErrorEvent(e, lastStep.node)>>
    /\ lastStep.node \notin DOMAIN nodes

\* C5 as amended: when getDependencies reports an error for a node, `error`
\* is emitted with (err, node), the job leaves pendingJobs, and the nodes and
\* edges stay as they were: the job does not add the node, and a node that
\* was in the graph before (one that another job added as its dependency, or
\* that an earlier trace added) is still in it.
C5_FailedJobAddsNothing ==
  [][lastStep'.op = "failed" =>
       /\ \E e \in Errors : emitted' = <<ErrorEvent(e, lastStep'.node)>>
       /\ nodes' = nodes
       /\ \E j \in FinishedJobs : pendingJobs' = removeJob(pendingJobs, j.id)]_vars

\* C5 witness: the trace of a node that was enqueued as a dependency has
\* failed, and the node is in the graph
C5_Witness ==
  /\ lastStep.op = "failed"
  /\ lastStep.node \notin entries
  /\ lastStep.node \in DOMAIN nodes

\* C6 as claimed: the end of a job whose isValid is false changes nothing
\* but pendingJobs, which loses the job: no node, no edge, no further job,
\* no event.
C6_InvalidJobOnlyRemoved ==
  [][(JobFinished(lastStep') /\ ~lastStep'.valid) =>
       /\ nodes' = nodes
       /\ permanentNodes' = permanentNodes
       /\ \E j \in FinishedJobs : pendingJobs' = removeJob(pendingJobs, j.id)
       /\ tickQueue' = (IF lastStep'.op = "start" THEN Tail(tickQueue)
                        ELSE tickQueue)
       /\ emitted' = <<>>]_vars

\* C6 as amended: the end of a job whose isValid is false adds no node, no
\* edge and no job and removes the job from pendingJobs; the one event it
\* can emit is `error`, when getDependencies reports an error.
C6_InvalidJobRemovedOrError ==
  [][(JobFinished(lastStep') /\ ~lastStep'.valid) =>
       /\ nodes' = nodes
       /\ permanentNodes' = permanentNodes
       /\ \E j \in FinishedJobs : pendingJobs' = removeJob(pendingJobs, j.id)
       /\ tickQueue' = (IF lastStep'.op = "start" THEN Tail(tickQueue)
                        ELSE tickQueue)
       /\ \/ emitted' = <<>>
          \/ /\ lastStep'.op = "failed"
             /\ \E e \in Errors : emitted' = <<ErrorEvent(e, lastStep'.node)>>]_vars

\* C6 witness: getDependencies has called back with dependencies for a job
\* invalidated while it was in flight, and other jobs are still pending
C6_Witness ==
  /\ lastStep.op = "resolved"
  /\ ~lastStep.valid
  /\ relation[lastStep.node] # <<>>
  /\ pendingJobs # <<>>

\* C7 as claimed: a node whose pending trace has been invalidated before its
\* dependencies were resolved has had no `added` event since that trace was
\* enqueued.
C7_NoAddedForInvalidated ==
  \A i \in 1..Len(pendingJobs) :
    ~pendingJobs[i].isValid =>
      addedCount[pendingJobs[i].node] = pendingJobs[i].addedBefore

\* C7 as amended: the end of an invalidated job emits no `added` event; the
\* job that discovers a node as a dependency and enqueues its trace emits
\* `added` for it once, in the same step, before any prune can invalidate
\* the trace.
C7_AddedAtDiscoveryOnly ==
  [][/\ (JobFinished(lastStep') /\ ~lastStep'.valid) =>
          ~HasEvent(emitted', "added")
     /\ lastStep'.op = "resolved" =>
          \A j \in Range(pendingJobs') \ Range(pendingJobs) :
            /\ CountAdded(emitted', j.node) = 1
            /\ j.addedBefore = addedCount[j.node]]_vars

\* C7 witness: the trace of a node discovered as a dependency was
\* invalidated and has ended; the one `added` of the node is the
\* discoverer's
C7_Witness ==
  /\ lastStep.op = "resolved"
  /\ ~lastStep.valid
  /\ lastStep.node \notin entries
  /\ addedCount[lastStep.node] = 1

\* the ids the relation reaches from a set of ids
RECURSIVE Closure(_)
Closure(S) ==
  LET next == S \cup UNION {Range(relation[n]) : n \in S}
  IN IF next = S THEN S ELSE Closure(next)

\* the graph is the relation restricted to what the entries reach
FullyTraced ==
  /\ DOMAIN nodes = Closure(entries)
  /\ \A n \in DOMAIN nodes :
       /\ nodes[n].dependencies = Range(relation[n])
       /\ nodes[n].dependents = {m \in DOMAIN nodes : n \in Range(relation[m])}

\* C8: with a getDependencies that always succeeds, a trace leads to a state
\* in which pendingJobs is empty, the nodes are the ids reachable from the
\* entries and the edges are the dependency relation among them.
C8_EventuallyFullyTraced ==
  (calls > 0) ~> (pendingJobs = <<>> /\ FullyTraced)

\* C8 witness: the cycle A -> B -> C -> B has been traced from A
C8_Witness ==
  /\ relation = CycleDeps
  /\ entries = {"A"}
  /\ pendingJobs = <<>>
  /\ DOMAIN nodes = {"A", "B", "C"}
  /\ "B" \in nodes["C"].dependencies

TotalAdded == addedCount["A"] + addedCount["B"] + addedCount["C"]

\* C9: `added` is emitted once for each id that enters the graph and for no
\* other id; once A -> B -> C -> B has been traced from A and nothing is left
\* to run, `added` has been emitted three times and `complete` once.
C9_AddedPerNewNodeCompleteOnce ==
  /\ \A n \in Nodes : addedCount[n] = (IF n \in DOMAIN nodes THEN 1 ELSE 0)
  /\ (relation = CycleDeps /\ entries = {"A"} /\ calls = 1 /\ Quiescent) =>
       (TotalAdded = 3 /\ completeCount = 1)

\* C10: when `complete` is emitted pendingJobs is empty, and `added` and
\* `error` are emitted only by the callback of a job that was pending and
\* leaves pendingJobs in that step: none of them follows the `complete` of
\* the jobs that were pending.
C10_CompleteAfterJobEvents ==
  [][/\ HasEvent(emitted', "complete") =>
          /\ emitted' = <<Complete>>
          /\ pendingJobs = <<>>
          /\ pendingJobs' = <<>>
     /\ (HasEvent(emitted', "added") \/ HasEvent(emitted', "error")) =>
          /\ lastStep'.op \in {"resolved", "failed"}
          /\ FinishedJobs # {}
          /\ ~HasEvent(emitted', "complete")]_vars

\* C10 witness: `complete` has just been emitted after nodes were added and
\* an error reported
C10_Witness ==
  /\ emitted = <<Complete>>
  /\ DOMAIN nodes # {}
  /\ calls >= 2

\* the graph holds exactly A -> B -> C -> B, traced from A, and no job is left
CycleTraced ==
  /\ relation = CycleDeps
  /\ entries = {"A"}
  /\ pendingJobs = <<>>
  /\ FullyTraced

\* C11: on the graph A -> B -> C with C -> B that trace(A) has completed,
\* prune(A) with an empty permanent set removes A, B and C and emits `pruned`
\* exactly three times; prune(A) with permanent set {C} removes only A and
\* leaves B and C and the edges between them.
C11_PruneCycle ==
  [][(CycleTraced /\ lastStep'.op = "prune" /\ lastStep'.node = "A") =>
       /\ permanentNodes = <<>> =>
            /\ DOMAIN nodes' = {}
            /\ Len(emitted') = 3
            /\ {emitted'[i] : i \in 1..3} = {Pruned(n) : n \in {"A", "B", "C"}}
       /\ Range(permanentNodes) = {"C"} =>
            /\ DOMAIN nodes' = {"B", "C"}
            /\ nodes'["B"] = [dependencies |-> {"C"}, dependents |-> {"C"}]
            /\ nodes'["C"] = [dependencies |-> {"B"}, dependents |-> {"B"}]
            /\ emitted' = <<Pruned("A")>>]_vars

\* C11 witness: A has been pruned from the traced cycle with C permanent; B
\* and C are left with the edges between them
C11_Witness ==
  /\ relation = CycleDeps
  /\ lastStep = Step("prune", "A", TRUE)
  /\ permanentNodes = <<"C">>
  /\ emitted = <<Pruned("A")>>
  /\ DOMAIN nodes = {"B", "C"}
  /\ nodes["B"].dependencies = {"C"}
  /\ nodes["C"].dependencies = {"B"}

\* the graph state that C12 compares: nodes and edges, the permanent list and
\* the pending jobs with their validity flags
SameGraphState(g1, g2) ==
  /\ g2.nodes = g1.nodes
  /\ g2.permanentNodes = g1.permanentNodes
  /\ g2.pendingJobs = g1.pendingJobs

\* C12: pruneNode and setNodeAsPermanent are idempotent on the graph state:
\* whenever the caller has just pruned an id x, a second pruneNode(x) leaves
\* the nodes, edges, permanent list and pending jobs (validity flags included)
\* as the first left them; whenever the caller has just set x as permanent,
\* a second setNodeAsPermanent(x) leaves the permanent list as the first left
\* it, with x in it once.
C12_PruneAndPermanentIdempotent ==
  /\ lastStep.op = "prune" =>
       \A g2 \in pruneNode(Graph, lastStep.node) : SameGraphState(Graph, g2)
  /\ lastStep.op = "permanent" =>
       LET g2 == setNodeAsPermanent(Graph, lastStep.node)
       IN /\ SameGraphState(Graph, g2)
          /\ Cardinality({i \in 1..Len(g2.permanentNodes) :
                            g2.permanentNodes[i] = lastStep.node}) = 1

\* C12 witness: an id whose pending job an earlier prune invalidated has been
\* pruned again, to no effect, while the graph holds nodes
C12_Witness ==
  /\ lastStep.op = "prune"
  /\ emitted = <<>>
  /\ \E j \in Range(pendingJobs) : j.node = lastStep.node /\ ~j.isValid
  /\ DOMAIN nodes # {}

\* the promises handed out for job j
HandlesOf(j) == {h \in handles : h[1] = j}

\* the jobs whose function has called job d through the store
CallersOf(d) == {j \in Jobs : d \in called[j]}

\* C13: for every job of the record, under every interleaving of callers,
\* the function of the job is invoked at most once, and every call of the
\* job (while it is pending, or later) is handed the same promise, so any two
\* calls yield the same value.
C13_ComputedAtMostOnce ==
  \A j \in Jobs :
    /\ started[j] <= 1
    /\ Cardinality(HandlesOf(j)) <= 1
    /\ slots[j].state # "unstarted" => HandlesOf(j) = {<<j, 1>>}

\* C13 witness: two jobs have called a job that is still pending, and it was
\* invoked once
C13_Witness ==
  \E d \in Jobs :
    /\ slots[d].state = "pending"
    /\ Cardinality(CallersOf(d)) >= 2
    /\ started[d] = 1

SlotRank(slot) ==
  CASE slot.state = "unstarted" -> 0
    [] slot.state = "pending" -> 1
    [] OTHER -> 2

\* C14: each slot of the record only moves forward through unstarted,
\* pending, resolved or failed: a resolved or failed slot keeps its state and
\* its value, and a pending slot never returns to unstarted.
C14_SlotsMoveForward ==
  [][\A j \in Jobs :
       /\ SlotRank(slots'[j]) >= SlotRank(slots[j])
       /\ SlotRank(slots[j]) = 2 =>
            /\ slots'[j].state = slots[j].state
            /\ slots'[j].value = slots[j].value]_vars

\* C14 witness: after two calls from outside, a job called from outside has
\* failed while other jobs are resolved and pending
C14_Witness ==
  /\ requests = 2
  /\ \E j \in Requested : slots[j].state = "failed"
  /\ \E j \in Jobs : slots[j].state = "resolved"
  /\ \E j \in Jobs : slots[j].state = "pending"

\* C15: when a job has failed for the record, every caller of it holds the
\* one promise that rejected (the same error for all), its function has been
\* invoked once only, and every job that called it through the store has
\* failed as well, with the error of one of the jobs it called.
C15_FailurePoisonsSlot ==
  \A d \in Jobs :
    slots[d].state = "failed" =>
      /\ started[d] = 1
      /\ HandlesOf(d) = {<<d, 1>>}
      /\ \A j \in CallersOf(d) :
           /\ slots[j].state = "failed"
           /\ \E c \in called[j] :
                slots[c].state = "failed" /\ slots[j].value = slots[c].value

\* C15 witness: the resolver has failed on a path identifier, and with it
\* resolvePathDependencies, resolvedDependencies and moduleDefinition
C15_Witness ==
  /\ slots["browserResolve.path"].state = "failed"
  /\ slots["resolvePathDependencies"].state = "failed"
  /\ slots["resolvedDependencies"].state = "failed"
  /\ slots["moduleDefinition"].state = "failed"
  /\ slots["hash"].state = "resolved"

\* the node of the step just taken has its dependencies and the edges to
\* them in the graph
TracedInto(ns, n) ==
  /\ n \in DOMAIN ns
  /\ \A d \in Range(relation[n]) :
       /\ d \in DOMAIN ns
       /\ d \in ns[n].dependencies
       /\ n \in ns[d].dependents

\* C16: when the trace of a node fails, only the failed job leaves
\* pendingJobs, and the graph and the deferred callbacks are left as they
\* are; every job whose getDependencies then answers adds its node, its
\* dependencies and the edges and leaves pendingJobs; and from a failure on
\* the jobs still pending all come to their end.
C16_FailureDoesNotStopOthers ==
  /\ [][lastStep'.op = "failed" =>
          /\ \E j \in FinishedJobs : pendingJobs' = removeJob(pendingJobs, j.id)
          /\ nodes' = nodes
          /\ tickQueue' = tickQueue]_vars
  /\ [][lastStep'.op = "resolved" =>
          /\ TracedInto(nodes', lastStep'.node)
          /\ \E j \in FinishedJobs :
               Range(pendingJobs) \ {j} \subseteq Range(pendingJobs')]_vars
  /\ (lastStep.op = "failed") ~> (pendingJobs = <<>>)

\* C16 witness: the trace of a node has failed while the getDependencies of
\* another node is in flight
C16_Witness ==
  /\ lastStep.op = "failed"
  /\ \E j \in Range(pendingJobs) :
       j.phase = "inflight" /\ j.node # lastStep.node

\* resolvePathDependencies has resolved, by the job's own function
PathDependenciesResolved ==
  /\ storeCfg # Null
  /\ "resolvePathDependencies" \notin DOMAIN storeCfg.overrides
  /\ slots["resolvePathDependencies"].state = "resolved"

\* the fields the cache held for the record when readCache read it
HeldFields ==
  IF slots["cache.get"].value.t = "null" THEN EmptyMap
  ELSE slots["cache.get"].value.fields

\* what the resolver finds for the path identifiers of the file
ResolvedPathIdentifiers ==
  LET ids == slots["pathDependencyIdentifiers"].value
  IN zipObject(ids, [i \in 1..Len(ids) |-> browserResolve(ids[i])])

\* C17 as claimed: the result of resolvePathDependencies is stored in the
\* cache object under `resolvePathDependencies` when
\* shouldCacheResolvedPathDependencies is true; when it is false the entry
\* is left as the cache held it (absent, or the earlier value) and the
\* result is what the resolver finds for every path identifier.
C17_StoredOnlyWhenShouldCache ==
  PathDependenciesResolved =>
    IF slots["shouldCacheResolvedPathDependencies"].value
    THEN /\ "resolvePathDependencies" \in DOMAIN cachedData
         /\ cachedData["resolvePathDependencies"] =
              slots["resolvePathDependencies"].value
    ELSE /\ "resolvePathDependencies" \in DOMAIN cachedData
              <=> "resolvePathDependencies" \in DOMAIN HeldFields
         /\ "resolvePathDependencies" \in DOMAIN cachedData =>
              cachedData["resolvePathDependencies"] =
                HeldFields["resolvePathDependencies"]
         /\ slots["resolvePathDependencies"].value = ResolvedPathIdentifiers

\* C17 as amended: the entry of the cache is returned, and the resolver not
\* run, only when shouldCacheResolvedPathDependencies is true and the cache
\* held an entry; otherwise the resolver is run for every path identifier,
\* whatever the cache held.  In both cases the cache object then holds the
\* result under `resolvePathDependencies`: it is written when
\* shouldCacheResolvedPathDependencies is false as well.
C17_ReadOnlyWhenShouldCache ==
  PathDependenciesResolved =>
    /\ "resolvePathDependencies" \in DOMAIN cachedData
    /\ cachedData["resolvePathDependencies"] =
         slots["resolvePathDependencies"].value
    /\ IF /\ slots["shouldCacheResolvedPathDependencies"].value
          /\ "resolvePathDependencies" \in DOMAIN HeldFields
       THEN /\ slots["resolvePathDependencies"].value =
                 HeldFields["resolvePathDependencies"]
            /\ started["resolver"] = 0
            /\ started["browserResolve.path"] = 0
       ELSE /\ started["resolver"] = 1
            /\ slots["pathDependencyIdentifiers"].value # <<>> =>
                 started["browserResolve.path"] = 1
            /\ slots["resolvePathDependencies"].value = ResolvedPathIdentifiers

\* C17 witness: a file outside the root node_modules whose cache held an
\* entry of an earlier run: the resolver has run and its result has replaced
\* the entry
C17_Witness ==
  /\ PathDependenciesResolved
  /\ ~slots["shouldCacheResolvedPathDependencies"].value
  /\ "resolvePathDependencies" \in DOMAIN HeldFields
  /\ DotFoo \in DOMAIN HeldFields["resolvePathDependencies"]
  /\ HeldFields["resolvePathDependencies"][DotFoo] = foundEarlier(DotFoo)
  /\ cachedData["resolvePathDependencies"][DotFoo] = browserResolve(DotFoo)

\* C18: the value of resolvedDependencies has the identifiers of the maps
\* of resolvePathDependencies and resolvePackageDependencies together; an
\* identifier of the path map has the path map's value, whether or not the
\* package map has it too, and the others have the package map's value.
C18_PathDependenciesWin ==
  slots["resolvedDependencies"].state = "resolved" =>
    LET pathDeps == slots["resolvePathDependencies"].value
        packageDeps == slots["resolvePackageDependencies"].value
        resolved == slots["resolvedDependencies"].value
    IN /\ DOMAIN resolved = DOMAIN pathDeps \cup DOMAIN packageDeps
       /\ \A id \in DOMAIN pathDeps : resolved[id] = pathDeps[id]
       /\ \A id \in DOMAIN packageDeps \ DOMAIN pathDeps :
            resolved[id] = packageDeps[id]

\* C18 witness: both maps hold the same identifier with different values,
\* and resolvedDependencies has resolved
C18_Witness ==
  /\ slots["resolvedDependencies"].state = "resolved"
  /\ \E id \in DOMAIN slots["resolvePathDependencies"].value
                \cap DOMAIN slots["resolvePackageDependencies"].value :
       slots["resolvePathDependencies"].value[id]
         # slots["resolvePackageDependencies"].value[id]
  /\ DOMAIN slots["resolvePackageDependencies"].value
       \ DOMAIN slots["resolvePathDependencies"].value # {}

\* C19: the value of cacheKey is <<name, mtime, hash>> if isTextFile is true
\* and <<name, mtime>> otherwise, so its length is 3 exactly for a text
\* file; the value of hash is that of hashText for a text file and the
\* decimal string of mtime otherwise.
C19_CacheKeyAndHash ==
  /\ slots["cacheKey"].state = "resolved" =>
       LET key == slots["cacheKey"].value
       IN /\ Len(key) \in {2, 3}
          /\ Len(key) = 3 <=> slots["isTextFile"].value
          /\ key[1] = storeCfg.file
          /\ key[2] = slots["mtime"].value
          /\ Len(key) = 3 => key[3] = slots["hash"].value
  /\ slots["hash"].state = "resolved" =>
       IF slots["isTextFile"].value
       THEN slots["hash"].value = slots["hashText"].value
       ELSE slots["hash"].value = toString(slots["mtime"].value)

\* C19 witness: for a file that is not text, cacheKey and hash have
\* resolved: the key has two elements and the hash is the decimal string of
\* the modification time
C19_Witness ==
  /\ slots["cacheKey"].state = "resolved"
  /\ slots["hash"].state = "resolved"
  /\ ~slots["isTextFile"].value
  /\ slots["cacheKey"].value = <<PngFile, 1337>>
  /\ slots["hash"].value = "1337"

\* two slots have settled alike: both resolved with one value, or both
\* failed with one error
SettledAlike(a, b) ==
  /\ a.state = b.state
  /\ a.value.t = b.value.t
  /\ a.value = b.value

\* C20: once content has settled, it is null for a file that is not text;
\* what the `code` job gave for the bootstrap runtime and for a .css file;
\* what the `moduleDefinition` job gave for another .js or .json file; and a
\* failure for any other extension.  moduleDefinition is null exactly for
\* the bootstrap runtime, whose content is therefore the raw text of the
\* file and not a module definition.
C20_ContentByKind ==
  /\ slots["content"].state \in {"resolved", "failed"} =>
       LET isText == slots["isTextFile"]
           extOf == slots["ext"].value
       IN IF isText.state = "failed" THEN slots["content"].state = "failed"
          ELSE IF ~isText.value
          THEN slots["content"] = [state |-> "resolved", value |-> Null]
          ELSE IF storeCfg.file = State.bootstrapRuntime \/ extOf = ".css"
          THEN SettledAlike(slots["content"], slots["code"])
          ELSE IF extOf \in {".js", ".json"}
          THEN SettledAlike(slots["content"], slots["moduleDefinition"])
          ELSE slots["content"].state = "failed"
  /\ slots["moduleDefinition"].state = "resolved" =>
       (slots["moduleDefinition"].value.t = "null"
          <=> storeCfg.file = State.bootstrapRuntime)
  /\ (slots["content"].state = "resolved"
        /\ storeCfg.file = State.bootstrapRuntime) =>
       /\ slots["content"].value.t = "string"
       /\ slots["readText"].state = "resolved"
       /\ slots["content"].value = String(slots["readText"].value)

\* what the code job computes for a text file when the cache holds no code:
\* the css of the post-processor, the code of babelFile, or the raw text
FreshCode(extOf) ==
  CASE extOf = ".css" -> String(slots["postcssTransform"].value.css)
    [] extOf = ".js" -> String(slots["babelFile"].value.code)
    [] extOf = ".json" -> String(slots["readText"].value)

\* C21: once code has settled, it is null for a file that is not text,
\* whatever the cache holds; for the bootstrap runtime it is the raw text of
\* the file, whatever the cache holds; for another text file it is the code
\* that the cache holds from an earlier run, if any, and else the css of the
\* post-processor for .css, the code of the transform or generator for .js,
\* the raw text for .json, and a failure for any other extension.
C21_CodeByKind ==
  slots["code"].state \in {"resolved", "failed"} =>
    LET isText == slots["isTextFile"]
        extOf == slots["ext"].value
        result == slots["code"]
    IN IF isText.state = "failed" THEN result.state = "failed"
       ELSE IF ~isText.value
       THEN result = [state |-> "resolved", value |-> Null]
       ELSE IF slots["readCache"].state = "failed"
       THEN result.state = "failed"
       ELSE IF storeCfg.file = State.bootstrapRuntime
       THEN result.state = "resolved" =>
              /\ result.value.t = "string"
              /\ slots["readText"].state = "resolved"
              /\ result.value = String(slots["readText"].value)
       ELSE IF "code" \in DOMAIN HeldFields
       THEN result = [state |-> "resolved", value |-> HeldFields["code"]]
       ELSE IF extOf \notin {".css", ".js", ".json"}
       THEN result.state = "failed"
       ELSE result.state = "resolved" => result.value = FreshCode(extOf)

\* C22: for a file that is not text, code, content and sourceMap are null
\* once they have settled, and moduleDefinition, once resolved, is a module
\* definition (not null) with the name of the file, no dependencies, the
\* modification time written as a string for its hash, and for its code the
\* shim whose default export is the url of the file as JSON.
C22_BinaryFile ==
  (slots["isTextFile"].state = "resolved" /\ ~slots["isTextFile"].value) =>
    /\ \A j \in {"code", "content", "sourceMap"} :
         slots[j].state \in {"resolved", "failed"} =>
           slots[j] = [state |-> "resolved", value |-> Null]
    /\ slots["moduleDefinition"].state = "resolved" =>
         /\ slots["moduleDefinition"].value.t = "module"
         /\ slots["mtime"].state = "resolved"
         /\ slots["url"].state = "resolved"
         /\ slots["moduleDefinition"].value =
              createJSModuleDefinition(
                storeCfg.file, EmptyMap, toString(slots["mtime"].value),
                [t |-> "shim",
                 default |-> [t |-> "json", v |-> slots["url"].value]])

\* C22 witness: a .png file whose code, content, sourceMap and
\* moduleDefinition have all resolved, from a cache that held an entry
C22_Witness ==
  /\ storeCfg = TestStore(PngFile, EmptyMap)
  /\ jobCache # EmptyMap
  /\ \A j \in {"code", "content", "sourceMap", "moduleDefinition"} :
       slots[j].state = "resolved"

Markers == {"!", "?", "#"}

\* the prefix of id before the earliest marker, id itself when it has none
PrefixBeforeMarkers(id) ==
  LET at == {i \in 1..Len(id) : id[i] \in Markers}
  IN IF at = {} THEN id
     ELSE SubSeq(id, 1, (CHOOSE i \in at : \A m \in at : i <= m) - 1)

\* C23: when dependencyIdentifiers has resolved from analyzed dependencies,
\* its value has one identifier per dependency, in the same order, each one
\* the prefix of the source string before its earliest `!`, `?` or `#`; no
\* identifier of the value holds a marker, cleaning the value again leaves
\* it as it is, and the value is what the cache object then holds.
C23_IdentifiersCleaned ==
  slots["dependencyIdentifiers"].state = "resolved" =>
    LET deps == slots["analyzeDependencies"].value
        ids == slots["dependencyIdentifiers"].value
    IN /\ Len(ids) = Len(deps)
       /\ \A i \in 1..Len(deps) :
            /\ ids[i] = PrefixBeforeMarkers(deps[i].source)
            /\ \A m \in 1..Len(ids[i]) : ids[i][m] \notin Markers
       /\ [i \in 1..Len(ids) |-> CleanIdentifier(ids[i])] = ids
       /\ cachedData["dependencyIdentifiers"] = ids

\* C23 witness: two dependencies, the first with the three markers after a
\* character (as in foo!bar?x#y), have been cleaned
C23_Witness ==
  /\ slots["dependencyIdentifiers"].state = "resolved"
  /\ slots["analyzeDependencies"].value =
       <<[source |-> <<"a", "!", "?", "#">>], [source |-> <<"#">>]>>
  /\ slots["dependencyIdentifiers"].value = <<(<<"a">>), <<>>>>

\* C24: when ready has resolved, each of hash, content, moduleDefinition,
\* url, sourceMapAnnotation, hashedFilename, isTextFile, mimeType and
\* fileDependencies has resolved, and ready's value holds the name of the
\* file and the nine values the record holds, in that order; when ready has
\* been called and one of the nine has failed, ready has failed.
C24_ReadyJoinsNine ==
  /\ slots["ready"].state = "resolved" =>
       /\ \A i \in 1..Len(ReadyJobs) : slots[ReadyJobs[i]].state = "resolved"
       /\ Len(slots["ready"].value) = Len(ReadyJobs) + 1
       /\ slots["ready"].value[1] = storeCfg.file
       /\ \A i \in 1..Len(ReadyJobs) :
            slots["ready"].value[i + 1] = slots[ReadyJobs[i]].value
  /\ (/\ slots["ready"].state # "unstarted"
      /\ \E i \in 1..Len(ReadyJobs) : slots[ReadyJobs[i]].state = "failed")
       => slots["ready"].state = "failed"

\* C24 witness: ready has resolved for a .js file that had no cache entry
C24_Witness ==
  /\ storeCfg = TestStore(JsFile, EmptyMap)
  /\ jobCache = EmptyMap
  /\ slots["ready"].state = "resolved"
  /\ slots["content"].state = "resolved"

\* C25: when url has resolved for a text file, its last part is the base
\* name, a dash, the hash and the extension of the file; for a file that is
\* not text it is the file's own name. The part before it is rootUrl
\* followed by the directories of the file relative to sourceRoot when the
\* file lies under sourceRoot, and by all its directories otherwise.
C25_UrlEndsWithHashedName ==
  slots["url"].state = "resolved" =>
    LET u == slots["url"].value
        file == storeCfg.file
        inRoot == startsWith(file, State.sourceRoot)
    IN /\ slots["isTextFile"].state = "resolved"
       /\ IF slots["isTextFile"].value
          THEN /\ slots["hash"].state = "resolved"
               /\ u.file = file.base \o "-" \o slots["hash"].value \o file.ext
          ELSE u.file = file.base \o file.ext
       /\ u.rootUrl = State.rootUrl
       /\ u.absolute = ~inRoot
       /\ u.dir = IF inRoot
                  THEN SubSeq(file.dir, Len(State.sourceRoot) + 1,
                              Len(file.dir))
                  ELSE file.dir

\* C25 witness: the url of a text file outside sourceRoot has resolved
C25_Witness ==
  /\ storeCfg = TestStore(VendoredFile, EmptyMap)
  /\ slots["url"].state = "resolved"
  /\ slots["url"].value.absolute
  /\ slots["url"].value.file = "index-2045.js"

\* the cache had nothing for the record, or failed to read what it had
CacheYieldedNothing ==
  slots["cache.get"].state = "resolved" /\ slots["cache.get"].value.t = "null"

\* the jobs that consult readCache
CacheConsumers ==
  {"dependencyIdentifiers", "resolvePathDependencies",
   "resolvePackageDependencies", "code", "sourceMap"}

\* what a job that consults readCache computes when the cache object is new
Recomputed(j) ==
  LET extOf == slots["ext"].value
      resolveEach(ids) ==
        zipObject(ids, [i \in 1..Len(ids) |-> browserResolve(ids[i])])
  IN CASE j = "dependencyIdentifiers" ->
            [i \in 1..Len(slots["analyzeDependencies"].value) |->
               PrefixBeforeMarkers(slots["analyzeDependencies"].value[i].source)]
       [] j = "resolvePathDependencies" ->
            resolveEach(slots["pathDependencyIdentifiers"].value)
       [] j = "resolvePackageDependencies" ->
            resolveEach(slots["packageDependencyIdentifiers"].value)
       [] j = "code" ->
            IF ~slots["isTextFile"].value THEN Null
            ELSE IF storeCfg.file = State.bootstrapRuntime
            THEN String(slots["readText"].value)
            ELSE FreshCode(extOf)
       [] j = "sourceMap" ->
            IF ~slots["isTextFile"].value \/ extOf = ".json" THEN Null
            ELSE IF extOf = ".css"
            THEN String(slots["postcssTransform"].value.map)
            ELSE String("offset " \o slots["babelFile"].value.map)

\* C26: the read of the cache never fails: cache.get never rejects, and
\* readCache fails only when the key of the record could not be computed.
\* When the cache yielded nothing (a miss, or an entry it failed to read),
\* readCache resolves to a new object, which holds only what the jobs of
\* the record have written since; each job that consults readCache, when
\* resolved, holds the value computed anew, and when failed, a library call
\* other than the cache has failed or the file has a text extension that
\* the job does not know.
C26_CacheReadNeverFails ==
  /\ slots["cache.get"].state # "failed"
  /\ slots["readCache"].state = "failed" =>
       /\ slots["cache.get"].state = "unstarted"
       /\ slots["cacheKey"].state = "failed"
  /\ CacheYieldedNothing =>
       /\ slots["readCache"].state = "resolved"
       /\ \A k \in DOMAIN cachedData :
            slots[k].state = "resolved" /\ cachedData[k] = slots[k].value
       /\ \A j \in CacheConsumers \ DOMAIN storeCfg.overrides :
            /\ slots[j].state = "resolved" => slots[j].value = Recomputed(j)
            /\ slots[j].state = "failed" =>
                 \/ \E op \in Ops : slots[op].state = "failed"
                 \/ /\ j \in {"code", "sourceMap"}
                    /\ slots["ext"].value \notin {".css", ".js", ".json"}

\* C26 witness: the cache failed to read the entry it held for a .js file,
\* and code and resolvePathDependencies have been computed anew
C26_Witness ==
  /\ storeCfg = TestStore(JsFile, EmptyMap)
  /\ jobCache # EmptyMap
  /\ CacheYieldedNothing
  /\ slots["code"].state = "resolved"
  /\ slots["code"].value = String("babel of text")
  /\ slots["resolvePathDependencies"].state = "resolved"

\* C27: once set(key, value) has been called, a get of the key returns the
\* value last set for it, whether the durable write is in flight, has
\* finished or has failed: so would any get now, and so did the last get
\* when it was made; and what a get of a key returns changes only in a step
\* that sets that key.
C27_GetAfterSet ==
  /\ [](\A key \in DOMAIN kv.lastSet : get(kv, key) = {kv.lastSet[key]})
  /\ [][/\ (kv'.got # kv.got /\ kv'.got.key \in DOMAIN kv.lastSet) =>
             kv'.got.value = kv.lastSet[kv'.got.key]
        /\ \A key \in KvKeys :
             get(kv', key) # get(kv, key) =>
               /\ key \in DOMAIN kv'.lastSet
               /\ key \in DOMAIN kv.lastSet =>
                    kv'.lastSet[key] # kv.lastSet[key]]_vars

\* C27 witness: a key was set twice, the durable store holds the older
\* value and no write is left, and a get has returned the newer value
C27_Witness ==
  /\ kv # Null
  /\ "test key" \in DOMAIN kv.lastSet
  /\ "test key" \in DOMAIN kv.durable
  /\ kv.durable["test key"] # kv.lastSet["test key"]
  /\ kv.writes = {}
  /\ kv.got = [key |-> "test key", value |-> kv.lastSet["test key"]]

\* C28: a resolution of an identifier that is not a core module and for
\* which no file exists (not the file of a path identifier, nor a browser
\* or main file of the package in a node_modules of the base directory or
\* above it) returns an error, not a path, whose message holds the
\* identifier and the base directory; every other resolution returns a path,
\* an existing file or, for a core module with a shim, the path of the shim.
C28_ResolveOrHelpfulError ==
  (resolution # Null /\ resolution.result # Null) =>
    LET id == resolution.identifier
        result == resolution.result
        wanted == Range(Candidates(id, resolution.baseDir))
    IN IF id \in DOMAIN CoreShims
       THEN result = [t |-> "path", path |-> CoreShims[id]]
       ELSE IF wanted \cap resolution.files = {}
       THEN /\ result.t = "error"
            /\ DOMAIN result = {"t", "message"}
            /\ {"identifier", "from"} \subseteq DOMAIN result.message
            /\ result.message.identifier = id
            /\ result.message.from = resolution.baseDir
       ELSE /\ result.t = "path"
            /\ result.path \in wanted \cap resolution.files

\* C28 witness: a package that is in no node_modules was resolved from
\* src/lib, where other files exist
C28_Witness ==
  /\ resolution # Null
  /\ resolution.identifier = Pkg
  /\ resolution.baseDir = <<"src", "lib">>
  /\ resolution.files = {<<"src", "f">>, <<"b">>}
  /\ resolution.result # Null
  /\ resolution.result.t = "error"

\* the jobs for node d that the step has enqueued
EnqueuedFor(d) ==
  {j \in Range(pendingJobs') : j.node = d /\ j \notin Range(pendingJobs)}

\* C29: in a step where getDependencies calls back with the dependencies of
\* node n for a job that is still valid, a trace job is enqueued for a node d
\* if and only if d is one of the dependencies, d is not n, d was not in
\* nodes and no valid pending job was for d; it is one job, valid and not
\* yet started, and the only valid pending job for d after the step. In
\* particular a dependency that was not in nodes and whose pending jobs had
\* all been invalidated gets a new job.
C29_TracedIffNewAndNotPending ==
  [][(lastStep'.op = "resolved" /\ lastStep'.valid) =>
       \A d \in Nodes :
         LET wasPending == \E j \in Range(pendingJobs) :
                             j.node = d /\ j.isValid
             expected == /\ d \in Range(relation[lastStep'.node])
                         /\ d # lastStep'.node
                         /\ d \notin DOMAIN nodes
                         /\ ~wasPending
         IN /\ (EnqueuedFor(d) # {}) = expected
            /\ expected =>
                 /\ Cardinality(EnqueuedFor(d)) = 1
                 /\ \A j \in EnqueuedFor(d) :
                      j.isValid /\ j.phase = "scheduled"
                 /\ {j \in Range(pendingJobs') : j.node = d /\ j.isValid}
                      = EnqueuedFor(d)]_vars

\* C29 witness: the dependencies of a node have just been added, and the
\* last job enqueued is a valid one for a dependency that has an invalidated
\* job still pending
C29_Witness ==
  /\ lastStep.op = "resolved"
  /\ lastStep.valid
  /\ pendingJobs # <<>>
  /\ LET new == pendingJobs[Len(pendingJobs)]
     IN /\ new.isValid
        /\ new.phase = "scheduled"
        /\ new.node \in Range(relation[lastStep.node])
        /\ new.node # lastStep.node
        /\ \E i \in 1..(Len(pendingJobs) - 1) :
             /\ pendingJobs[i].node = new.node
             /\ ~pendingJobs[i].isValid
             /\ pendingJobs[i].phase = "inflight"
        /\ \E k \in 1..Len(tickQueue) : tickQueue[k] = StartTask(new.id)

\* C30: a prune of an id that is not in nodes leaves nodes, the permanent
\* nodes and the deferred callbacks as they were. When a valid job was
\* pending for the id, every pending job for the id is invalid afterwards,
\* the other jobs are as they were, and `pruned` has been emitted once, for
\* the id; when none was, the pending jobs are as they were and no event
\* has been emitted.
C30_PruneOfAbsentNode ==
  [][(lastStep'.op = "prune" /\ lastStep'.node \notin DOMAIN nodes) =>
       LET id == lastStep'.node
       IN /\ nodes' = nodes
          /\ permanentNodes' = permanentNodes
          /\ tickQueue' = tickQueue
          /\ IF \E i \in 1..Len(pendingJobs) :
                  pendingJobs[i].node = id /\ pendingJobs[i].isValid
             THEN /\ emitted' = <<Pruned(id)>>
                  /\ Len(pendingJobs') = Len(pendingJobs)
                  /\ \A i \in 1..Len(pendingJobs) :
                       IF pendingJobs[i].node = id
                       THEN pendingJobs'[i] =
                              [pendingJobs[i] EXCEPT !.isValid = FALSE]
                       ELSE pendingJobs'[i] = pendingJobs[i]
             ELSE /\ emitted' = <<>>
                  /\ pendingJobs' = pendingJobs]_vars

\* C30 witness: an id that is not in nodes has just been pruned while jobs
\* were pending for it and for another id; `pruned` has been emitted for it
\* and its jobs are invalid
C30_Witness ==
  /\ lastStep.op = "prune"
  /\ lastStep.node \notin DOMAIN nodes
  /\ emitted = <<Pruned(lastStep.node)>>
  /\ \E i \in 1..Len(pendingJobs) :
       pendingJobs[i].node = lastStep.node /\ ~pendingJobs[i].isValid
  /\ \E i \in 1..Len(pendingJobs) :
       pendingJobs[i].node # lastStep.node /\ pendingJobs[i].isValid

\* C31: a prune of an id that is in nodes removes the id, permanent or not,
\* and adds no node. In the same step, with no callback deferred, `pruned`
\* is emitted exactly once for each node removed and for nothing else, every
\* pending job for a removed node is invalid, and the other jobs are as
\* they were.
C31_PruneOfPresentNode ==
  [][(lastStep'.op = "prune" /\ lastStep'.node \in DOMAIN nodes) =>
       LET removed == DOMAIN nodes \ DOMAIN nodes'
       IN /\ lastStep'.node \in removed
          /\ DOMAIN nodes' \subseteq DOMAIN nodes
          /\ tickQueue' = tickQueue
          /\ Len(emitted') = Cardinality(removed)
          /\ \A m \in removed :
               Cardinality({i \in 1..Len(emitted') :
                              emitted'[i] = Pruned(m)}) = 1
          /\ Len(pendingJobs') = Len(pendingJobs)
          /\ \A i \in 1..Len(pendingJobs) :
               IF pendingJobs[i].node \in removed
               THEN pendingJobs'[i] = [pendingJobs[i] EXCEPT !.isValid = FALSE]
               ELSE pendingJobs'[i] = pendingJobs[i]]_vars

\* C31 witness: a permanent node has just been pruned from nodes together
\* with a successor, for which a job that was pending is now invalid
C31_Witness ==
  /\ lastStep.op = "prune"
  /\ lastStep.node \in Range(permanentNodes)
  /\ lastStep.node \notin DOMAIN nodes
  /\ Len(emitted) = 2
  /\ emitted[1] = Pruned(lastStep.node)
  /\ \E i \in 1..Len(pendingJobs) :
       /\ pendingJobs[i].node = emitted[2].node
       /\ ~pendingJobs[i].isValid

C33_TraceOnlyEnqueues ==
  [][/\ lastStep'.op = "trace" =>
          /\ nodes' = nodes
          /\ emitted' = <<>>
          /\ Len(pendingJobs') = Len(pendingJobs) + 1
          /\ SubSeq(pendingJobs', 1, Len(pendingJobs)) = pendingJobs
          /\ LET job == pendingJobs'[Len(pendingJobs')]
             IN /\ job.node = lastStep'.node
                /\ job.isValid
                /\ job.phase = "scheduled"
                /\ \A i \in 1..Len(pendingJobs) : pendingJobs[i].id # job.id
                /\ tickQueue' = Append(tickQueue, StartTask(job.id))
     /\ \A i \in 1..Len(pendingJobs) :
          LET job == pendingJobs[i]
          IN /\ (/\ job.phase = "scheduled"
                 /\ lastStep'.op = "prune"
                 /\ lastStep'.node = job.node) =>
                  /\ Len(pendingJobs') = Len(pendingJobs)
                  /\ pendingJobs'[i] = [job EXCEPT !.isValid = FALSE]
             /\ (job.phase = "scheduled" /\ ~job.isValid) =>
                  \A k \in 1..Len(pendingJobs') :
                    pendingJobs'[k].id = job.id => pendingJobs'[k] = job]_vars

\* C33 witness: the only trace so far was pruned before its start, and the
\* deferred start has dropped the job: no getDependencies was ever called
C33_Witness ==
  /\ lastStep.op = "start"
  /\ ~lastStep.valid
  /\ ~dispatched
  /\ calls = 2
  /\ pendingJobs = <<>>
  /\ nodes = <<>>

\* C34: a step in which an id becomes a node is the callback of a trace
\* that succeeded and was still valid; a step in which a node ceases to be
\* one is a prune. setNodeAsPermanent changes neither the nodes, nor their
\* edges, nor the pending jobs, whether or not the id is a node; prune adds
\* no node, no edge and no pending job.
C34_NodesEnterByTraceLeaveByPrune ==
  [][/\ DOMAIN nodes' \ DOMAIN nodes # {} =>
          lastStep'.op = "resolved" /\ lastStep'.valid
     /\ DOMAIN nodes \ DOMAIN nodes' # {} => lastStep'.op = "prune"
     /\ lastStep'.op = "permanent" =>
          /\ nodes' = nodes
          /\ pendingJobs' = pendingJobs
          /\ tickQueue' = tickQueue
     /\ lastStep'.op = "prune" =>
          /\ DOMAIN nodes' \subseteq DOMAIN nodes
          /\ \A m \in DOMAIN nodes' :
               /\ nodes'[m].dependencies \subseteq nodes[m].dependencies
               /\ nodes'[m].dependents \subseteq nodes[m].dependents
          /\ Len(pendingJobs') = Len(pendingJobs)
          /\ \A i \in 1..Len(pendingJobs) :
               pendingJobs'[i].id = pendingJobs[i].id
          /\ tickQueue' = tickQueue]_vars

\* C34 witness: an id that is not a node has been set as permanent while
\* the graph holds other nodes and a job is pending
C34_Witness ==
  /\ lastStep.op = "permanent"
  /\ lastStep.node \in Range(permanentNodes)
  /\ lastStep.node \notin DOMAIN nodes
  /\ DOMAIN nodes # {}
  /\ pendingJobs # <<>>

\* the fields of the entry that cache.get yielded for the record
FoundInCache ==
  IF slots["cache.get"].value.t = "object"
  THEN slots["cache.get"].value.fields ELSE EmptyMap

\* the jobs that produce the value which job j keeps in the cache object
Upstream(j) ==
  CASE j = "dependencyIdentifiers" -> {"analyzeDependencies"}
    [] j = "resolvePackageDependencies" ->
         {"packageDependencyIdentifiers", "resolver"}
    [] j \in {"code", "sourceMap"} -> {"postcssTransform", "babelFile"}

\* job j has resolved after a look at the cache object
LookedAndResolved(j) ==
  /\ j \notin DOMAIN storeCfg.overrides
  /\ slots[j].state = "resolved"
  /\ "readCache" \in called[j]

\* the values that a job computes from the text of the file on every run
\* and does not keep: the code of a runtime or of a .json file, and the
\* null source map of a .json file
ServedUncached(j) ==
  \/ j = "code" /\ (IsRuntime(storeCfg.file) \/ storeCfg.file.ext = ".json")
  \/ j = "sourceMap" /\ storeCfg.file.ext = ".json"

C36_WriteCachePersistsAnnotations ==
  /\ []((/\ kv # Null
         /\ slots["cache.get"].state = "resolved"
         /\ slots["cache.set"].state = "unstarted"
         /\ slots["cacheKey"].value \in DOMAIN kv.memory) =>
          LET entry == kv.memory[slots["cacheKey"].value]
          IN /\ slots["cache.get"].value = [t |-> "object", fields |-> entry]
             /\ slots["readCache"].state = "resolved" =>
                  \A k \in DOMAIN entry :
                    /\ k \in DOMAIN cachedData
                    /\ \/ cachedData[k] = entry[k]
                       \/ /\ k = "resolvePathDependencies"
                          /\ ~startsWith(storeCfg.file, State.rootNodeModules))
  /\ [][(/\ slots["cache.set"].state = "unstarted"
         /\ slots'["cache.set"].state # "unstarted") =>
          LET key == slots'["cacheKey"].value
          IN /\ kv' # Null
             /\ slots'["cacheKey"].state = "resolved"
             /\ key \in DOMAIN kv'.memory
             /\ \A k \in DOMAIN cachedData :
                  /\ k \in DOMAIN kv'.memory[key]
                  /\ kv'.memory[key][k] = cachedData[k]
             /\ \A k \in DOMAIN kv'.memory[key] :
                  /\ k \in DOMAIN cachedData'
                  /\ kv'.memory[key][k] = cachedData'[k]]_vars

\* C36 witness: nothing was cached for a .js file by earlier processes; a
\* record has written its cache object back, and the next record of the
\* file has its code from the cache, with no transform started
C36_Witness ==
  /\ storeCfg = TestStore(JsFile, EmptyMap)
  /\ jobCache = EmptyMap
  /\ kv # Null
  /\ slots["cache.set"].state = "unstarted"
  /\ slots["babelFile"].state = "unstarted"
  /\ slots["code"].state = "resolved"
  /\ slots["code"].value = String("babel of " \o FileText)

\* C37: every step that ends a job (dropped before dispatch, error,
\* invalid at the callback, success) takes it off pendingJobs, and whenever
\* jobs are pending, pendingJobs becomes empty later on: the caller makes
\* finitely many calls, the relation is finite, and each getDependencies
\* calls back once.
C37_PendingJobsDrain ==
  /\ [][(lastStep'.op \in {"resolved", "failed"}
          \/ (lastStep'.op = "start" /\ ~lastStep'.valid)) =>
          FinishedJobs # {}]_vars
  /\ (pendingJobs # <<>>) ~> (pendingJobs = <<>>)

\* C37 witness: the error of a job that a prune had invalidated in flight
\* has left pendingJobs empty, with no callback deferred
C37_Witness ==
  /\ lastStep.op = "failed"
  /\ ~lastStep.valid
  /\ pendingJobs = <<>>
  /\ tickQueue = <<>>

\* C38: a step in which getDependencies reports an error for a job emits
\* `error` with the error and the node of the job, and nothing else, whether
\* the job is still valid or not; every other end of an invalidated job
\* (dropped before dispatch, or dependencies reported) emits no event.
C38_ErrorEmittedAlsoWhenInvalid ==
  [][/\ lastStep'.op = "failed" =>
          \E job \in FinishedJobs, e \in Errors :
            /\ emitted' = <<ErrorEvent(e, job.node)>>
            /\ job.node = lastStep'.node
            /\ job.isValid = lastStep'.valid
     /\ (lastStep'.op \in {"start", "resolved"} /\ ~lastStep'.valid) =>
          emitted' = <<>>]_vars

\* C38 witness: getDependencies has reported an error for a job that a
\* prune had invalidated while it was in flight, while another job is
\* pending, and `error` is emitted for its node
C38_Witness ==
  /\ lastStep.op = "failed"
  /\ ~lastStep.valid
  /\ Len(emitted) = 1
  /\ emitted[1].type = "error"
  /\ emitted[1].node = lastStep.node
  /\ pendingJobs # <<>>

\* C39: the lists of pathDependencyIdentifiers and
\* packageDependencyIdentifiers share no identifier and together hold every
\* identifier of dependencyIdentifiers; each is the list of
\* dependencyIdentifiers with the identifiers of the other left out, so in
\* the same order and as often. The maps of resolvePathDependencies and
\* resolvePackageDependencies have these lists' identifiers as keys, none in
\* common, and resolvedDependencies has exactly the distinct identifiers of
\* dependencyIdentifiers as keys.
C39_IdentifiersPartitioned ==
  LET ids == storeCfg.overrides["dependencyIdentifiers"]
      value(j) == slots[j].value
      done(j) == slots[j].state = "resolved"
      pathIds == value("pathDependencyIdentifiers")
      packageIds == value("packageDependencyIdentifiers")
  IN /\ done("pathDependencyIdentifiers") =>
          Range(pathIds) \subseteq Range(ids)
     /\ (done("pathDependencyIdentifiers")
         /\ done("packageDependencyIdentifiers")) =>
          /\ Range(pathIds) \cap Range(packageIds) = {}
          /\ Range(pathIds) \cup Range(packageIds) = Range(ids)
          /\ pathIds = SelectSeq(ids, LAMBDA id : id \notin Range(packageIds))
          /\ packageIds = SelectSeq(ids, LAMBDA id : id \notin Range(pathIds))
     /\ done("resolvePathDependencies") =>
          DOMAIN value("resolvePathDependencies") = Range(pathIds)
     /\ done("resolvePackageDependencies") =>
          DOMAIN value("resolvePackageDependencies") = Range(packageIds)
     /\ (done("resolvePathDependencies")
         /\ done("resolvePackageDependencies")) =>
          DOMAIN value("resolvePathDependencies")
            \cap DOMAIN value("resolvePackageDependencies") = {}
     /\ done("resolvedDependencies") =>
          /\ DOMAIN value("resolvedDependencies") = Range(ids)
          /\ \A id \in Range(ids) :
               value("resolvedDependencies")[id] = browserResolve(id)

\* C39 witness: of three identifiers, a package between two paths of which
\* one is absolute, resolvedDependencies holds three entries
C39_Witness ==
  /\ storeCfg.overrides["dependencyIdentifiers"] = <<SlashBar, Pkg, DotFoo>>
  /\ slots["resolvedDependencies"].state = "resolved"
  /\ slots["pathDependencyIdentifiers"].value = <<SlashBar, DotFoo>>
  /\ slots["packageDependencyIdentifiers"].value = <<Pkg>>
  /\ Cardinality(DOMAIN slots["resolvedDependencies"].value) = 3

\* how often traceFile has been started on a path
Starts(file) ==
  Cardinality({i \in 1..Len(tracer.calls) : tracer.calls[i].file = file})

\* C40 as claimed: traceFile is started at most once on each path, the
\* final callback is called at most once, and the tree handed to it has
\* exactly the paths as keys on which traceFile had been started.
C40_TracedOncePerPath ==
  /\ \A file \in TracerFiles : Starts(file) <= 1
  /\ tracer.final <= 1
  /\ DOMAIN tracer.tree = {file \in TracerFiles : Starts(file) > 0}
  /\ tracer.finalKeys \subseteq DOMAIN tracer.tree

====
